---------------------------- MODULE Spec2Model ----------------------------
(***************************************************************************)
(* Model of aumai-modeloci: ModelPackager (package, create_manifest,       *)
(* add_layer, _create_layer_blob) and ModelUnpackager (unpack,             *)
(* verify_layers) of src/src/aumai_modeloci/core.py.                       *)
(*                                                                         *)
(* Strings and byte strings are sequences of character codes (ASCII), so   *)
(* that JSON serialisation, JSON parsing, digest.split(":") and path       *)
(* comparison are computed character by character as the code does.        *)
(***************************************************************************)
EXTENDS Integers, Sequences, FiniteSets, TLC

\* ------------------------------------------------------------------------
\* Bounds of the model
\* ------------------------------------------------------------------------

\* the wall clock (seconds) runs from 0 to MaxClock
MaxClock ==
  2

\* largest number of regular files in the source directory
MaxFiles ==
  2

\* largest number of layers add_layer appends to an archive
MaxAdds ==
  2

\* the longest list of layers handed to create_manifest directly
MaxLayers ==
  2

\* largest number of archives package writes into the model directory
MaxNested ==
  2

\* largest number of changes made to an archive after it was packaged
MaxDamage ==
  2

\* largest number of entries appended to an archive behind those it was
\* packaged with
MaxAppended ==
  1

\* ------------------------------------------------------------------------
\* String constants of the program
\* ------------------------------------------------------------------------

\* "manifest.json"
MANIFEST_FILENAME ==
  <<109, 97, 110, 105, 102, 101, 115, 116, 46, 106, 115, 111, 110>>

\* "config.json"
CONFIG_FILENAME ==
  <<99, 111, 110, 102, 105, 103, 46, 106, 115, 111, 110>>

\* "blobs/sha256"
LAYERS_DIR ==
  <<98, 108, 111, 98, 115, 47, 115, 104, 97, 50, 53, 54>>

\* "sha256", the algorithm prefix of a digest string
SHA256_PREFIX ==
  <<115, 104, 97, 50, 53, 54>>

\* "model_name"
K_model_name ==
  <<109, 111, 100, 101, 108, 95, 110, 97, 109, 101>>

\* "version"
K_version ==
  <<118, 101, 114, 115, 105, 111, 110>>

\* "framework"
K_framework ==
  <<102, 114, 97, 109, 101, 119, 111, 114, 107>>

\* "architecture"
K_architecture ==
  <<97, 114, 99, 104, 105, 116, 101, 99, 116, 117, 114, 101>>

\* "metadata"
K_metadata ==
  <<109, 101, 116, 97, 100, 97, 116, 97>>

\* "schema_version"
K_schema_version ==
  <<115, 99, 104, 101, 109, 97, 95, 118, 101, 114, 115, 105, 111, 110>>

\* "media_type"
K_media_type ==
  <<109, 101, 100, 105, 97, 95, 116, 121, 112, 101>>

\* "config"
K_config ==
  <<99, 111, 110, 102, 105, 103>>

\* "layers"
K_layers ==
  <<108, 97, 121, 101, 114, 115>>

\* "mediaType"
K_mediaType ==
  <<109, 101, 100, 105, 97, 84, 121, 112, 101>>

\* "digest"
K_digest ==
  <<100, 105, 103, 101, 115, 116>>

\* "size"
K_size ==
  <<115, 105, 122, 101>>

\* "annotations"
K_annotations ==
  <<97, 110, 110, 111, 116, 97, 116, 105, 111, 110, 115>>

\* "org.opencontainers.image.title"
TITLE_KEY ==
  <<111, 114, 103, 46, 111, 112, 101, 110, 99, 111, 110, 116, 97, 105, 110,
    101, 114, 115, 46, 105, 109, 97, 103, 101, 46, 116, 105, 116, 108, 101>>

\* "application/vnd.oci.image.layer.v1.tar+gzip"
LAYER_MEDIA_TYPE ==
  <<97, 112, 112, 108, 105, 99, 97, 116, 105, 111, 110, 47, 118, 110, 100,
    46, 111, 99, 105, 46, 105, 109, 97, 103, 101, 46, 108, 97, 121, 101,
    114, 46, 118, 49, 46, 116, 97, 114, 43, 103, 122, 105, 112>>

\* "application/vnd.oci.image.manifest.v1+json"
MANIFEST_MEDIA_TYPE ==
  <<97, 112, 112, 108, 105, 99, 97, 116, 105, 111, 110, 47, 118, 110, 100,
    46, 111, 99, 105, 46, 105, 109, 97, 103, 101, 46, 109, 97, 110, 105,
    102, 101, 115, 116, 46, 118, 49, 43, 106, 115, 111, 110>>

\* "application/vnd.oci.image.config.v1+json"
CONFIG_MEDIA_TYPE ==
  <<97, 112, 112, 108, 105, 99, 97, 116, 105, 111, 110, 47, 118, 110, 100,
    46, 111, 99, 105, 46, 105, 109, 97, 103, 101, 46, 99, 111, 110, 102,
    105, 103, 46, 118, 49, 43, 106, 115, 111, 110>>

\* ------------------------------------------------------------------------
\* Strings
\* ------------------------------------------------------------------------

\* s < t in the order of Python's str: lexicographic by character code
StrLess(s, t) ==
  \E i \in 1..(Len(s) + 1) :
    /\ i <= Len(t)
    /\ \A k \in 1..(i - 1) : s[k] = t[k]
    /\ (i = Len(s) + 1 \/ s[i] < t[i])

\* str.split(sep): the pieces of s between the occurrences of the character
RECURSIVE Split(_, _)
Split(s, sep) ==
  IF \A i \in 1..Len(s) : s[i] # sep
  THEN <<s>>
  ELSE LET i == CHOOSE j \in 1..Len(s) :
                  s[j] = sep /\ \A k \in 1..(j - 1) : s[k] # sep
       IN  <<SubSeq(s, 1, i - 1)>> \o Split(SubSeq(s, i + 1, Len(s)), sep)

\* str(n) of a natural number
RECURSIVE IntToStr(_)
IntToStr(n) ==
  IF n < 10 THEN <<48 + n>>
  ELSE IntToStr(n \div 10) \o <<48 + (n % 10)>>

\* sorted(S) for a finite set of strings
RECURSIVE SortedStrs(_)
SortedStrs(S) ==
  IF S = {} THEN <<>>
  ELSE LET m == CHOOSE x \in S : \A y \in S \ {x} : StrLess(x, y)
       IN  <<m>> \o SortedStrs(S \ {m})

\* ------------------------------------------------------------------------
\* Digests
\* ------------------------------------------------------------------------

\* one lowercase hexadecimal digit
HexChar(n) ==
  IF n < 10 THEN 48 + n ELSE 87 + n

\* hashlib.sha256(data).hexdigest(), idealised as a collision-free hash:
\* the hexadecimal dump of the data, so that two byte strings have the
\* same digest exactly when they are equal
hexdigest(data) ==
  [i \in 1..(2 * Len(data)) |->
     IF i % 2 = 1 THEN HexChar(data[(i + 1) \div 2] \div 16)
     ELSE HexChar(data[i \div 2] % 16)]

\* 'sha256:<hex>' digest of data
sha256_bytes(data) ==
  SHA256_PREFIX \o <<58>> \o hexdigest(data)

\* ------------------------------------------------------------------------
\* JSON serialisation (pydantic's model_dump_json, indent = 0 for the
\* compact form of "no indent", indent = 2 for indent=2)
\* ------------------------------------------------------------------------

\* n space characters
Spaces(n) ==
  [i \in 1..n |-> 32]

\* line break and indentation in front of an item at nesting depth level
JNewline(indent, level) ==
  IF indent = 0 THEN <<>> ELSE <<10>> \o Spaces(indent * level)

\* a JSON string literal (the model's strings need no escaping)
JStr(s) ==
  <<34>> \o s \o <<34>>

\* "key":value, with a space after the colon in the indented form
JMember(key, value, indent) ==
  JStr(key) \o (IF indent = 0 THEN <<58>> ELSE <<58, 32>>) \o value

\* the items (already serialised) joined by commas, each on its own line in
\* the indented form
RECURSIVE JItems(_, _, _)
JItems(items, indent, level) ==
  IF items = <<>> THEN <<>>
  ELSE JNewline(indent, level) \o Head(items)
       \o (IF Len(items) > 1 THEN <<44>> ELSE <<>>)
       \o JItems(Tail(items), indent, level)

\* a JSON object whose members (already serialised) sit at depth level + 1
JObject(members, indent, level) ==
  IF members = <<>> THEN <<123, 125>>
  ELSE <<123>> \o JItems(members, indent, level + 1)
       \o JNewline(indent, level) \o <<125>>

\* a JSON array whose items (already serialised) sit at depth level + 1
JArray(items, indent, level) ==
  IF items = <<>> THEN <<91, 93>>
  ELSE <<91>> \o JItems(items, indent, level + 1)
       \o JNewline(indent, level) \o <<93>>

\* MetaValueJson with every value written as a JSON string
MetaValueJson_AllStrings(v) ==
  CASE v.kind = "str" -> JStr(v.s)
    [] v.kind = "int" -> JStr(IntToStr(v.n))
    [] OTHER -> JStr(<<110, 117, 108, 108>>)

\* one value of OCIConfig.metadata: a JSON string, integer or null
MetaValueJson(v) ==
  CASE v.kind = "str" -> JStr(v.s)
    [] v.kind = "int" -> IntToStr(v.n)
    [] OTHER -> <<110, 117, 108, 108>>

\* OCIConfig.model_dump_json(indent=...)
ConfigDumpJson(cfg, indent) ==
  JObject(
    << JMember(K_model_name, JStr(cfg.model_name), indent),
       JMember(K_version, JStr(cfg.version), indent),
       JMember(K_framework, JStr(cfg.framework), indent),
       JMember(K_architecture, JStr(cfg.architecture), indent),
       JMember(K_metadata,
               JObject([i \in 1..Len(cfg.metadata) |->
                          JMember(cfg.metadata[i].key,
                                  MetaValueJson(cfg.metadata[i].val), indent)],
                       indent, 1),
               indent) >>,
    indent, 0)

\* a descriptor of the manifest's config: mediaType, digest, size
ConfigDescriptorJson(d, indent, level) ==
  JObject(
    << JMember(K_mediaType, JStr(d.mediaType), indent),
       JMember(K_digest, JStr(d.digest), indent),
       JMember(K_size, IntToStr(d.size), indent) >>,
    indent, level)

\* a layer descriptor of the manifest: mediaType, digest, size, annotations
LayerDescriptorJson(d, indent, level) ==
  JObject(
    << JMember(K_mediaType, JStr(d.mediaType), indent),
       JMember(K_digest, JStr(d.digest), indent),
       JMember(K_size, IntToStr(d.size), indent),
       JMember(K_annotations,
               JObject(<< JMember(TITLE_KEY, JStr(d.annotations.title), indent) >>,
                       indent, level + 1),
               indent) >>,
    indent, level)

\* OCIManifest.model_dump_json(indent=...): the fields under their Python
\* names schema_version, media_type, config, layers
ManifestDumpJson(m, indent) ==
  JObject(
    << JMember(K_schema_version, IntToStr(m.schema_version), indent),
       JMember(K_media_type, JStr(m.media_type), indent),
       JMember(K_config, ConfigDescriptorJson(m.config, indent, 1), indent),
       JMember(K_layers,
               JArray([i \in 1..Len(m.layers) |->
                         LayerDescriptorJson(m.layers[i], indent, 2)],
                      indent, 1),
               indent) >>,
    indent, 0)

\* ------------------------------------------------------------------------
\* JSON parsing (json.loads followed by pydantic's model_validate), for
\* documents with the members in the order the serialiser writes them.
\* A position 0 stands for "the text up to here did not parse".
\* ------------------------------------------------------------------------

\* the result of a failed parse
ParseFail ==
  [ok |-> FALSE, val |-> <<>>, next |-> 0]

\* JSON whitespace: space, line feed, tab, carriage return
IsWs(c) ==
  c \in {32, 10, 9, 13}

\* a decimal digit
IsDigit(c) ==
  c >= 48 /\ c <= 57

\* the first position from i on that holds no whitespace
SkipWs(s, i) ==
  CHOOSE j \in i..(Len(s) + 1) :
    /\ (j = Len(s) + 1 \/ ~IsWs(s[j]))
    /\ \A k \in i..(j - 1) : IsWs(s[k])

\* the text lit stands at position i of s
StartsAt(s, i, lit) ==
  /\ i + Len(lit) - 1 <= Len(s)
  /\ \A k \in 1..Len(lit) : s[i + k - 1] = lit[k]

\* skip whitespace, then read the text lit: the position after it, or 0
Lit(s, i, lit) ==
  IF i = 0 THEN 0
  ELSE LET p == SkipWs(s, i)
       IN  IF StartsAt(s, p, lit) THEN p + Len(lit) ELSE 0

\* skip whitespace, then read "key" and the colon
KeyAt(s, i, key) ==
  Lit(s, Lit(s, i, JStr(key)), <<58>>)

\* int(text) of a run of digits
RECURSIVE StrToInt(_)
StrToInt(d) ==
  IF d = <<>> THEN 0
  ELSE 10 * StrToInt(SubSeq(d, 1, Len(d) - 1)) + (d[Len(d)] - 48)

\* skip whitespace, then read a string literal
StrVal(s, i) ==
  IF i = 0 THEN ParseFail
  ELSE LET p == SkipWs(s, i)
       IN  IF p <= Len(s) /\ s[p] = 34
              /\ \E j \in (p + 1)..Len(s) : s[j] = 34
           THEN LET j == CHOOSE q \in (p + 1)..Len(s) :
                           s[q] = 34 /\ \A k \in (p + 1)..(q - 1) : s[k] # 34
                IN  [ok |-> TRUE, val |-> SubSeq(s, p + 1, j - 1),
                     next |-> j + 1]
           ELSE ParseFail

\* skip whitespace, then read a non-negative integer
IntVal(s, i) ==
  IF i = 0 THEN ParseFail
  ELSE LET p == SkipWs(s, i)
       IN  IF p <= Len(s) /\ IsDigit(s[p])
           THEN LET j == CHOOSE q \in (p + 1)..(Len(s) + 1) :
                           /\ (q = Len(s) + 1 \/ ~IsDigit(s[q]))
                           /\ \A k \in p..(q - 1) : IsDigit(s[k])
                IN  [ok |-> TRUE, val |-> StrToInt(SubSeq(s, p, j - 1)),
                     next |-> j]
           ELSE ParseFail

\* a parse result with the value x put in front of the values of r
Prepend(x, r) ==
  IF r.ok THEN [ok |-> TRUE, val |-> <<x>> \o r.val, next |-> r.next]
  ELSE ParseFail

\* the parse result of a list that ends with the value x, its closing
\* bracket or brace read up to position e
Closed(x, e) ==
  IF e # 0 THEN [ok |-> TRUE, val |-> <<x>>, next |-> e] ELSE ParseFail

\* one value of the metadata object, at position p where no whitespace
\* stands: a string, an integer or null
MetaValAt(s, p) ==
  IF p > Len(s) THEN ParseFail
  ELSE IF s[p] = 34
  THEN [StrVal(s, p) EXCEPT !.val = [kind |-> "str", s |-> @, n |-> 0]]
  ELSE IF IsDigit(s[p])
  THEN [IntVal(s, p) EXCEPT !.val = [kind |-> "int", s |-> <<>>, n |-> @]]
  ELSE IF StartsAt(s, p, <<110, 117, 108, 108>>)
  THEN [ok |-> TRUE, next |-> p + 4,
        val |-> [kind |-> "null", s |-> <<>>, n |-> 0]]
  ELSE ParseFail

\* one value of the metadata object: a string, an integer or null
MetaVal(s, i) ==
  IF i = 0 THEN ParseFail ELSE MetaValAt(s, SkipWs(s, i))

RECURSIVE MetaMembers(_, _)

\* the members of a metadata object from the value v of the member of key k
\* on, up to the closing brace
MetaMembersFrom(s, k, v) ==
  IF v.next = 0 THEN ParseFail
  ELSE IF Lit(s, v.next, <<44>>) # 0
  THEN Prepend([key |-> k, val |-> v.val],
               MetaMembers(s, Lit(s, v.next, <<44>>)))
  ELSE Closed([key |-> k, val |-> v.val], Lit(s, v.next, <<125>>))

\* the members of a metadata object from the key k of a member on
MetaMembersAfterKey(s, k) ==
  MetaMembersFrom(s, k.val, MetaVal(s, Lit(s, k.next, <<58>>)))

\* the members of a non-empty metadata object, up to its closing brace
MetaMembers(s, i) ==
  MetaMembersAfterKey(s, StrVal(s, i))

\* the metadata object whose opening brace was read up to position a
MetaObjectFrom(s, a) ==
  IF a = 0 THEN ParseFail
  ELSE IF Lit(s, a, <<125>>) # 0
  THEN [ok |-> TRUE, val |-> <<>>, next |-> Lit(s, a, <<125>>)]
  ELSE MetaMembers(s, a)

\* the metadata object
MetaObject(s, i) ==
  MetaObjectFrom(s, Lit(s, i, <<123>>))

\* the fields model_validate reads from a JSON object of each kind, in the
\* order the serialiser writes them: OCIConfig, OCIManifest, the manifest's
\* config descriptor, a layer descriptor and its annotations
Fields(kind) ==
  CASE kind = "OCIConfig" ->
         << [key |-> K_model_name, kind |-> "str"],
            [key |-> K_version, kind |-> "str"],
            [key |-> K_framework, kind |-> "str"],
            [key |-> K_architecture, kind |-> "str"],
            [key |-> K_metadata, kind |-> "metadata"] >>
    [] kind = "OCIManifest" ->
         << [key |-> K_schema_version, kind |-> "int"],
            [key |-> K_media_type, kind |-> "str"],
            [key |-> K_config, kind |-> "config"],
            [key |-> K_layers, kind |-> "layers"] >>
    [] kind = "config" ->
         << [key |-> K_mediaType, kind |-> "str"],
            [key |-> K_digest, kind |-> "str"],
            [key |-> K_size, kind |-> "int"] >>
    [] kind = "layer" ->
         << [key |-> K_mediaType, kind |-> "str"],
            [key |-> K_digest, kind |-> "str"],
            [key |-> K_size, kind |-> "int"],
            [key |-> K_annotations, kind |-> "annotations"] >>
    [] kind = "annotations" ->
         << [key |-> TITLE_KEY, kind |-> "str"] >>

\* the object of a kind whose fields have the values v, in the order of
\* Fields(kind)
ObjectOf(kind, v) ==
  CASE kind = "OCIConfig" ->
         [model_name |-> v[1], version |-> v[2], framework |-> v[3],
          architecture |-> v[4], metadata |-> v[5]]
    [] kind = "OCIManifest" ->
         [schema_version |-> v[1], media_type |-> v[2], config |-> v[3],
          layers |-> v[4]]
    [] kind = "config" ->
         [mediaType |-> v[1], digest |-> v[2], size |-> v[3]]
    [] kind = "layer" ->
         [mediaType |-> v[1], digest |-> v[2], size |-> v[3],
          annotations |-> v[4]]
    [] kind = "annotations" ->
         [title |-> v[1]]

\* the parse result r of an object's members, as the object of that kind
AsObject(kind, r) ==
  IF r.ok THEN [r EXCEPT !.val = ObjectOf(kind, @)] ELSE ParseFail

RECURSIVE ParseValue(_, _, _)
RECURSIVE ParseMembers(_, _, _)
RECURSIVE LayerItems(_, _)

\* the members of an object from the value v of the first of fields on, up
\* to the closing brace
MembersFrom(s, fields, v) ==
  IF ~v.ok THEN ParseFail
  ELSE IF Len(fields) = 1 THEN Closed(v.val, Lit(s, v.next, <<125>>))
  ELSE Prepend(v.val, ParseMembers(s, Lit(s, v.next, <<44>>), Tail(fields)))

\* the members of an object, one per field, up to its closing brace
ParseMembers(s, i, fields) ==
  MembersFrom(s, fields,
              ParseValue(s, KeyAt(s, i, fields[1].key), fields[1].kind))

\* the items of a layers array from the layer descriptor d on, up to the
\* closing bracket
LayerItemsFrom(s, d) ==
  IF ~d.ok THEN ParseFail
  ELSE IF Lit(s, d.next, <<44>>) # 0
  THEN Prepend(d.val, LayerItems(s, Lit(s, d.next, <<44>>)))
  ELSE Closed(d.val, Lit(s, d.next, <<93>>))

\* the items of a non-empty layers array, up to its closing bracket
LayerItems(s, i) ==
  LayerItemsFrom(s, ParseValue(s, i, "layer"))

\* the layers array whose opening bracket was read up to position a
LayersArrayFrom(s, a) ==
  IF a = 0 THEN ParseFail
  ELSE IF Lit(s, a, <<93>>) # 0
  THEN [ok |-> TRUE, val |-> <<>>, next |-> Lit(s, a, <<93>>)]
  ELSE LayerItems(s, a)

\* the layers array
LayersArray(s, i) ==
  LayersArrayFrom(s, Lit(s, i, <<91>>))

\* skip whitespace, then read a value of the kind a field has
ParseValue(s, i, kind) ==
  CASE kind = "str" -> StrVal(s, i)
    [] kind = "int" -> IntVal(s, i)
    [] kind = "metadata" -> MetaObject(s, i)
    [] kind = "layers" -> LayersArray(s, i)
    [] OTHER -> AsObject(kind,
                         ParseMembers(s, Lit(s, i, <<123>>), Fields(kind)))

\* the parse result r of a whole document: nothing but whitespace follows
Document(s, r) ==
  IF r.ok /\ SkipWs(s, r.next) = Len(s) + 1
  THEN [ok |-> TRUE, val |-> r.val]
  ELSE [ok |-> FALSE, val |-> <<>>]

\* OCIConfig.model_validate(json.loads(text))
ParseConfig(s) ==
  Document(s, ParseValue(s, 1, "OCIConfig"))

\* OCIManifest.model_validate(json.loads(text)); config and layers are
\* dict[str, Any], of which the model reads mediaType, digest, size and
\* annotations
ParseManifest(s) ==
  Document(s, ParseValue(s, 1, "OCIManifest"))

\* ------------------------------------------------------------------------
\* Paths and the source directory
\* ------------------------------------------------------------------------

\* the model directory handed to package, "/m"
ModelDir ==
  <<47, 109>>

\* the regular files a model directory may hold, by relative path, with
\* their bytes: "a.b" and "a/b" hold "x", "b" holds "y"
ModelFiles ==
  (<<97, 46, 98>> :> <<120>>) @@ (<<97, 47, 98>> :> <<120>>)
    @@ (<<98>> :> <<121>>)

\* the relative paths a regular file of the model directory may have
RelPaths ==
  DOMAIN ModelFiles

\* the model directories of the model: at most MaxFiles regular files
SourceDirs ==
  { [p \in S |-> ModelFiles[p]] :
      S \in { T \in SUBSET RelPaths : Cardinality(T) <= MaxFiles } }

\* the values of OCIConfig.metadata in the model: {}, {"k": "v"} and
\* {"k": 7, "j": null}
Metadatas ==
  { <<>>,
    << [key |-> <<107>>, val |-> [kind |-> "str", s |-> <<118>>, n |-> 0]] >>,
    << [key |-> <<107>>, val |-> [kind |-> "int", s |-> <<>>, n |-> 7]],
       [key |-> <<106>>, val |-> [kind |-> "null", s |-> <<>>, n |-> 0]] >> }

\* the OCIConfig values of the model: model "m", version "1", framework "x",
\* architecture "y"
Configs ==
  [model_name : {<<109>>}, version : {<<49>>}, framework : {<<120>>},
   architecture : {<<121>>}, metadata : Metadatas]

\* the components of a path: path.split("/")
PathParts(p) ==
  Split(p, 47)

\* PathLess with the paths compared as whole strings
PathLess_FullString(p, q) ==
  StrLess(p, q)

\* p < q for pathlib paths: the sequences of components are compared,
\* component by component
PathLess(p, q) ==
  LET a == PathParts(p)
      b == PathParts(q)
  IN  \E i \in 1..(Len(a) + 1) :
        /\ i <= Len(b)
        /\ \A k \in 1..(i - 1) : a[k] = b[k]
        /\ (i = Len(a) + 1 \/ StrLess(a[i], b[i]))

\* sorted(S) for a finite set of pathlib paths
RECURSIVE SortedPaths(_)
SortedPaths(S) ==
  IF S = {} THEN <<>>
  ELSE LET m == CHOOSE x \in S : \A y \in S \ {x} : PathLess(x, y)
       IN  <<m>> \o SortedPaths(S \ {m})

\* the first n components of a path, joined by "/"
RECURSIVE JoinParts(_, _)
JoinParts(parts, n) ==
  IF n = 1 THEN parts[1]
  ELSE JoinParts(parts, n - 1) \o <<47>> \o parts[n]

\* rglob without the recursion, as model_path.glob("*"): the entries directly
\* below the model directory
rglob_TopLevelOnly(files) ==
  { PathParts(p)[1] : p \in DOMAIN files }

\* model_path.rglob("*"): every file and every directory below the model
\* directory, as paths relative to it
rglob(files) ==
  UNION { { JoinParts(PathParts(p), n) : n \in 1..Len(PathParts(p)) } :
            p \in DOMAIN files }

\* Path.is_file() for a path relative to the model directory
is_file(files, p) ==
  p \in DOMAIN files

\* Path(file_path).name: the last component
PathName(p) ==
  PathParts(p)[Len(PathParts(p))]

\* os.path.relpath(path, base) for a path below base
relpath(path, base) ==
  IF StartsAt(path, 1, base \o <<47>>)
  THEN SubSeq(path, Len(base) + 2, Len(path))
  ELSE path

\* ------------------------------------------------------------------------
\* ModelPackager
\* ------------------------------------------------------------------------

\* the bytes tarfile writes in mode "w:gz" for one file: the gzip header
\* (magic bytes and the time of writing, in seconds), then the member's
\* name and content
GzipTar(arcname, content, now) ==
  <<31, 139, now>> \o arcname \o <<0>> \o content

\* the name of the archive entry of a blob: blobs/sha256/<hex>
BlobEntryName(hex) ==
  LAYERS_DIR \o <<47>> \o hex

\* _create_layer_blob with the digest and the size taken from the original
\* file instead of the compressed blob
create_layer_blob_DigestOfFile(file_path, content, base_dir, now) ==
  LET arcname    == IF base_dir # <<>> THEN relpath(file_path, base_dir)
                    ELSE PathName(file_path)
      blob_bytes == GzipTar(arcname, content, now)
      digest     == sha256_bytes(content)
  IN  [layer |-> [digest |-> digest, size |-> Len(content),
                  media_type |-> LAYER_MEDIA_TYPE,
                  annotations |-> [title |-> arcname]],
       name  |-> BlobEntryName(Split(digest, 58)[2]),
       data  |-> blob_bytes]

\* _create_layer_blob(file_path, blobs_dir, base_dir): the ModelLayer
\* returned and the blob file written to blobs_dir; base_dir = <<>> is the
\* empty string
create_layer_blob(file_path, content, base_dir, now) ==
  LET arcname    == IF base_dir # <<>> THEN relpath(file_path, base_dir)
                    ELSE PathName(file_path)
      blob_bytes == GzipTar(arcname, content, now)
      digest     == sha256_bytes(blob_bytes)
      hex_digest == Split(digest, 58)[2]
      rel_path   == IF base_dir # <<>> THEN relpath(file_path, base_dir)
                    ELSE PathName(file_path)
  IN  [layer |-> [digest |-> digest, size |-> Len(blob_bytes),
                  media_type |-> LAYER_MEDIA_TYPE,
                  annotations |-> [title |-> rel_path]],
       name  |-> BlobEntryName(hex_digest),
       data  |-> blob_bytes]

\* create_manifest with the descriptors in the reverse order
create_manifest_Reversed(cfg, layers) ==
  [schema_version |-> 2,
   media_type |-> MANIFEST_MEDIA_TYPE,
   config |-> [mediaType |-> CONFIG_MEDIA_TYPE,
               digest |-> sha256_bytes(ConfigDumpJson(cfg, 0)),
               size |-> Len(ConfigDumpJson(cfg, 0))],
   layers |-> [i \in 1..Len(layers) |->
                 [mediaType |-> layers[Len(layers) + 1 - i].media_type,
                  digest |-> layers[Len(layers) + 1 - i].digest,
                  size |-> layers[Len(layers) + 1 - i].size,
                  annotations |-> layers[Len(layers) + 1 - i].annotations]]]

\* create_manifest(config, layers)
create_manifest(cfg, layers) ==
  LET config_bytes  == ConfigDumpJson(cfg, 0)
      config_digest == sha256_bytes(config_bytes)
  IN  [schema_version |-> 2,
       media_type |-> MANIFEST_MEDIA_TYPE,
       config |-> [mediaType |-> CONFIG_MEDIA_TYPE,
                   digest |-> config_digest,
                   size |-> Len(config_bytes)],
       layers |-> [i \in 1..Len(layers) |->
                     [mediaType |-> layers[i].media_type,
                      digest |-> layers[i].digest,
                      size |-> layers[i].size,
                      annotations |-> layers[i].annotations]]]

\* the regular files below the model directory in the order package visits
\* them: sorted(model_path.rglob("*")) filtered by is_file()
WalkOrder(files) ==
  SelectSeq(SortedPaths(rglob(files)), LAMBDA p : is_file(files, p))

\* the blobs package creates, one per visited file
PackageBlobs(files, now) ==
  LET order == WalkOrder(files)
  IN  [i \in 1..Len(order) |->
         create_layer_blob(ModelDir \o <<47>> \o order[i], files[order[i]],
                           ModelDir, now)]

\* a directory entry and a regular-file entry of a tar archive
DirEntry(name) ==
  [name |-> name, isdir |-> TRUE, data |-> <<>>]

FileEntry(name, data) ==
  [name |-> name, isdir |-> FALSE, data |-> data]

\* tar.add(tmp, arcname=""): the work area's root, its directories and its
\* files, each directory listed in sorted order. tmp maps the name of every
\* file of the work area to its bytes; in the work area's layout (blobs/
\* sha256/*, config.json, manifest.json) the recursive sorted listing is the
\* sorted list of the full names
TarAdd(tmp) ==
  LET names == SortedStrs(DOMAIN tmp)
  IN  << DirEntry(<<>>), DirEntry(<<98, 108, 111, 98, 115>>),
         DirEntry(LAYERS_DIR) >>
      \o [i \in 1..Len(names) |-> FileEntry(names[i], tmp[names[i]])]

\* the work area of package without the config blob: the layer blobs,
\* config.json and manifest.json only
PackageWorkArea_NoConfigBlob(cfg, files, now) ==
  LET blobs         == PackageBlobs(files, now)
      layers        == [i \in 1..Len(blobs) |-> blobs[i].layer]
      config_bytes  == ConfigDumpJson(cfg, 2)
      manifest_json == ManifestDumpJson(create_manifest(cfg, layers), 2)
      fileNames     == { blobs[i].name : i \in 1..Len(blobs) } \cup
                       { MANIFEST_FILENAME, CONFIG_FILENAME }
  IN  [n \in fileNames |->
         IF n = CONFIG_FILENAME THEN config_bytes
         ELSE IF n = MANIFEST_FILENAME THEN manifest_json
         ELSE LET i == CHOOSE j \in 1..Len(blobs) : blobs[j].name = n
              IN  blobs[i].data]

\* the temporary work area of package just before it is bundled
PackageWorkArea(cfg, files, now) ==
  LET blobs         == PackageBlobs(files, now)
      layers        == [i \in 1..Len(blobs) |-> blobs[i].layer]
      config_bytes  == ConfigDumpJson(cfg, 2)
      config_digest == sha256_bytes(config_bytes)
      config_blob   == BlobEntryName(Split(config_digest, 58)[2])
      manifest      == create_manifest(cfg, layers)
      manifest_json == ManifestDumpJson(manifest, 2)
      blobNames     == { blobs[i].name : i \in 1..Len(blobs) }
      fileNames     == blobNames \cup
                       { config_blob, MANIFEST_FILENAME, CONFIG_FILENAME }
  IN  [n \in fileNames |->
         IF n = CONFIG_FILENAME THEN config_bytes
         ELSE IF n = MANIFEST_FILENAME THEN manifest_json
         ELSE IF n = config_blob THEN config_bytes
         ELSE LET i == CHOOSE j \in 1..Len(blobs) :
                         /\ blobs[j].name = n
                         /\ \A k \in (j + 1)..Len(blobs) : blobs[k].name # n
              IN  blobs[i].data]

\* the manifest object package builds
PackageManifest(cfg, files, now) ==
  LET blobs == PackageBlobs(files, now)
  IN  create_manifest(cfg, [i \in 1..Len(blobs) |-> blobs[i].layer])

\* the lists of ModelLayer records a caller hands to create_manifest: up to
\* MaxLayers records, in any order and with repetitions, out of three: one
\* with the default media type, one with a media type of its own ("t") and
\* no bytes, and one with the digest of the first under another title
LayerLists ==
  LET l1 == [digest |-> <<100, 49>>, size |-> 1,
             media_type |-> LAYER_MEDIA_TYPE,
             annotations |-> [title |-> <<98>>]]
      l2 == [digest |-> <<100, 50>>, size |-> 0, media_type |-> <<116>>,
             annotations |-> [title |-> <<97, 47, 98>>]]
      l3 == [digest |-> <<100, 49>>, size |-> 2,
             media_type |-> LAYER_MEDIA_TYPE,
             annotations |-> [title |-> <<99>>]]
  IN  UNION { [1..n -> { l1, l2, l3 }] : n \in 0..MaxLayers }

\* the working directory of the caller is the model directory: "." names it
CurDir ==
  <<46>>

\* the paths handed to package that are no directory: "/m/b" (a regular
\* file of the model directory, or nothing) and "/n" (nothing)
BadPaths ==
  { ModelDir \o <<47, 98>>, <<47, 110>> }

\* Path(p).exists() in place of Path(p).is_dir(): a regular file passes
path_is_dir_Exists(files, p) ==
  \/ p \in { ModelDir, CurDir }
  \/ /\ StartsAt(p, 1, ModelDir \o <<47>>)
     /\ relpath(p, ModelDir) \in rglob(files)

\* Path(p).is_dir(): the model directory, under either of its names, or a
\* directory below it
path_is_dir(files, p) ==
  \/ p \in { ModelDir, CurDir }
  \/ /\ StartsAt(p, 1, ModelDir \o <<47>>)
     /\ relpath(p, ModelDir) \in rglob(files) \ DOMAIN files

\* Path(p).parent: "." and "/" are their own parents, a single relative
\* name has the parent ".", a name directly below the root has the parent "/"
Parent(p) ==
  LET parts == PathParts(p)
  IN  IF p = CurDir \/ p = <<47>> THEN p
      ELSE IF p[1] = 47
           THEN IF Len(parts) <= 2 THEN <<47>>
                ELSE JoinParts(parts, Len(parts) - 1)
           ELSE IF Len(parts) <= 1 THEN CurDir
                ELSE JoinParts(parts, Len(parts) - 1)

\* Path(dir) / name, as a string
PathJoin(dir, name) ==
  IF dir = CurDir THEN name
  ELSE IF dir = <<47>> THEN <<47>> \o name
  ELSE dir \o <<47>> \o name

\* f"{config.model_name}-{config.version}.tar"
TarName(cfg) ==
  cfg.model_name \o <<45>> \o cfg.version \o <<46, 116, 97, 114>>

\* str(model_path.parent / f"{config.model_name}-{config.version}.tar")
output_archive(model_dir, cfg) ==
  PathJoin(Parent(model_dir), TarName(cfg))

\* the regular files model_path.rglob("*") finds, by path relative to
\* model_dir: all of them for the model directory, those below it for a
\* directory of the model directory, none for a regular file
FilesBelow(files, model_dir) ==
  IF model_dir \in { ModelDir, CurDir } THEN files
  ELSE LET rel   == relpath(model_dir, ModelDir) \o <<47>>
           below == { p \in DOMAIN files : StartsAt(p, 1, rel) }
       IN  [q \in { SubSeq(p, Len(rel) + 1, Len(p)) : p \in below } |->
              files[rel \o q]]

\* tempfile.TemporaryDirectory() that is removed only when the block ends
\* without an exception
TemporaryDirectory_KeptOnError(areas, area, status) ==
  IF status = "ok" THEN SubSeq(Append(areas, area), 1, Len(areas))
  ELSE Append(areas, area)

\* with tempfile.TemporaryDirectory() as tmp_dir: the work areas of the
\* temporary directory after the block has ended, normally or with an
\* exception (status); area is the work area as the block left it. The
\* directory made on entry is removed on exit in either case
TemporaryDirectory(areas, area, status) ==
  SubSeq(Append(areas, area), 1, Len(areas))

\* tempfile.mkdtemp() that always takes the same name and makes do with a
\* directory that is there
mkdtemp_FixedName(areas) ==
  { <<116, 49>> }

\* tempfile.mkdtemp(), as TemporaryDirectory calls it: a directory of a
\* name that is not in use in the temporary directory ("t1", "t2")
mkdtemp(areas) ==
  { <<116, 49>>, <<116, 50>> } \ DOMAIN areas

\* the files of the work area of that name
Area(areas, name) ==
  IF name \in DOMAIN areas THEN areas[name] ELSE <<>>

\* the temporary directory once a file is written into a work area
WriteArea(areas, name, file, bytes) ==
  [n \in DOMAIN areas |->
     IF n = name
     THEN [f \in DOMAIN areas[n] \cup { file } |->
             IF f = file THEN bytes ELSE areas[n][f]]
     ELSE areas[n]]

\* the points at which package can fail once its work area is made: while
\* a file of the walk is read into its blob, while config and manifest are
\* written to the work area, while the output archive is opened for writing
PackageFaults ==
  { "walk", "metadata", "archive" }

\* the files of a work area that holds the first k blobs
BlobArea(blobs, k) ==
  [n \in { blobs[i].name : i \in 1..k } |->
     blobs[CHOOSE j \in 1..k : blobs[j].name = n].data]

\* the work area of package when it fails: the blobs of the files before
\* the last one, all the blobs, or the complete work area
FaultArea(cfg, files, now, fault) ==
  IF fault = "walk"
  THEN BlobArea(PackageBlobs(files, now), Len(WalkOrder(files)) - 1)
  ELSE IF fault = "metadata"
  THEN BlobArea(PackageBlobs(files, now), Len(WalkOrder(files)))
  ELSE PackageWorkArea(cfg, files, now)

\* package has run to its end with the work area tmp
packageDone(path, tmp, manifest) ==
  [status |-> "ok", path |-> path, entries |-> TarAdd(tmp),
   manifest |-> manifest, entered |-> TRUE, tmp |-> tmp]

\* package(model_dir, config): the exception raised or "ok", the path
\* returned, the entries of the archive written there, the manifest built,
\* whether the work area was made and the files it held at the end. fault
\* is "none" or the point at which the file system fails the call
package(model_dir, cfg, files, now, fault) ==
  IF ~path_is_dir(files, model_dir)
  THEN [status |-> "NotADirectoryError", path |-> <<>>, entries |-> <<>>,
        manifest |-> <<>>, entered |-> FALSE, tmp |-> <<>>]
  ELSE IF fault = "none"
  THEN packageDone(output_archive(model_dir, cfg),
                   PackageWorkArea(cfg, FilesBelow(files, model_dir), now),
                   PackageManifest(cfg, FilesBelow(files, model_dir), now))
  ELSE [status |-> "OSError", path |-> <<>>, entries |-> <<>>,
        manifest |-> <<>>, entered |-> TRUE,
        tmp |-> FaultArea(cfg, FilesBelow(files, model_dir), now, fault)]

RECURSIVE TarBytes(_)
\* the bytes of a tar archive: for each entry its name, its size and its
\* content
TarBytes(arch) ==
  IF arch = <<>> THEN <<>>
  ELSE arch[1].name \o <<0>> \o IntToStr(Len(arch[1].data)) \o <<0>>
       \o arch[1].data \o TarBytes(Tail(arch))

\* an archive path that lies in the model directory: a relative path (the
\* working directory is the model directory) or a path below "/m"
InModelDir(path) ==
  path # <<>> /\ (path[1] # 47 \/ StartsAt(path, 1, ModelDir \o <<47>>))

\* the regular files of the model directory once the archive is written at
\* a path that lies in it
WithArchive(files, path, entries) ==
  LET rel == relpath(path, ModelDir)
  IN  [p \in DOMAIN files \cup { rel } |->
         IF p = rel THEN TarBytes(entries) ELSE files[p]]

\* a regular file outside the model directory: "/e", holding "z"
ExtraFiles ==
  (<<47, 101>> :> <<122>>)

\* the paths handed to add_layer: "/m/b" (a file of the model directory, if
\* it is there), "/e" and the model directory "/m" itself
AddPaths ==
  { ModelDir \o <<47, 98>>, <<47, 101>>, ModelDir }

\* Path(p).is_file() for an absolute path: a regular file is there
path_is_file(files, p) ==
  \/ p \in DOMAIN ExtraFiles
  \/ /\ StartsAt(p, 1, ModelDir \o <<47>>)
     /\ relpath(p, ModelDir) \in DOMAIN files

\* the bytes of the regular file at an absolute path
read_bytes(files, p) ==
  IF p \in DOMAIN ExtraFiles THEN ExtraFiles[p]
  ELSE IF path_is_file(files, p) THEN files[relpath(p, ModelDir)]
  ELSE <<>>

\* no ModelLayer: what a failed add_layer returns
NoLayer ==
  [digest |-> <<>>, size |-> 0, media_type |-> <<>>,
   annotations |-> [title |-> <<>>]]

\* the points at which add_layer can fail once its work area is made: while
\* the file is read into its blob, while the archive is opened for appending
AddFaults ==
  { "blob", "archive" }

\* add_layer with the archive opened in mode "w": the archive is written
\* anew with the one entry
add_layer_WriteMode(arch, file_path, files, now, fault) ==
  IF ~path_is_file(files, file_path)
  THEN [status |-> "FileNotFoundError", layer |-> NoLayer, archive |-> arch,
        entered |-> FALSE, tmp |-> <<>>]
  ELSE LET blob      == create_layer_blob(file_path,
                                          read_bytes(files, file_path),
                                          <<>>, now)
           blob_name == Split(blob.layer.digest, 58)[2]
       IN  [status |-> "ok", layer |-> blob.layer,
            archive |-> << FileEntry(BlobEntryName(blob_name), blob.data) >>,
            entered |-> TRUE, tmp |-> (blob.name :> blob.data)]

\* add_layer without the test of Path(file_path).is_file()
add_layer_NoFileCheck(arch, file_path, files, now, fault) ==
  LET blob      == create_layer_blob(file_path, read_bytes(files, file_path),
                                     <<>>, now)
      blob_name == Split(blob.layer.digest, 58)[2]
  IN  [status |-> "ok", layer |-> blob.layer,
       archive |-> Append(arch, FileEntry(BlobEntryName(blob_name),
                                          blob.data)),
       entered |-> TRUE, tmp |-> (blob.name :> blob.data)]

\* add_layer has made the blob of the file
add_layerWithBlob(arch, blob, fault) ==
  IF fault = "archive"
  THEN [status |-> "OSError", layer |-> NoLayer, archive |-> arch,
        entered |-> TRUE, tmp |-> (blob.name :> blob.data)]
  ELSE [status |-> "ok", layer |-> blob.layer,
        archive |-> Append(arch,
                      FileEntry(BlobEntryName(Split(blob.layer.digest, 58)[2]),
                                blob.data)),
        entered |-> TRUE, tmp |-> (blob.name :> blob.data)]

\* add_layer(archive_path, file_path): the exception raised or "ok", the
\* ModelLayer returned, the archive afterwards, whether the work area was
\* made and the files it held at the end; tarfile's mode "a" puts the new
\* entry behind the entries the archive holds, and creates the archive when
\* it is absent. fault is "none" or the point at which the file system
\* fails the call
add_layer(arch, file_path, files, now, fault) ==
  IF ~path_is_file(files, file_path)
  THEN [status |-> "FileNotFoundError", layer |-> NoLayer, archive |-> arch,
        entered |-> FALSE, tmp |-> <<>>]
  ELSE IF fault = "blob"
  THEN [status |-> "OSError", layer |-> NoLayer, archive |-> arch,
        entered |-> TRUE, tmp |-> <<>>]
  ELSE add_layerWithBlob(arch,
                         create_layer_blob(file_path,
                                           read_bytes(files, file_path),
                                           <<>>, now),
                         fault)

\* ------------------------------------------------------------------------
\* ModelUnpackager
\* ------------------------------------------------------------------------

\* members.get(name) for members = {m.name: m for m in tar.getmembers()}:
\* the index of the last entry of that name, 0 for None
MemberIndex(arch, name) ==
  IF \E i \in 1..Len(arch) : arch[i].name = name
  THEN CHOOSE i \in 1..Len(arch) :
         /\ arch[i].name = name
         /\ \A k \in (i + 1)..Len(arch) : arch[k].name # name
  ELSE 0

\* the body of the loop of verify_layers, seen with only existence checked:
\* a layer is valid as soon as its blob entry is there
LayerIsValid_ExistsOnly(arch, digest, blob_name) ==
  LET blob_member == MemberIndex(arch, blob_name)
  IN  blob_member # 0 /\ ~arch[blob_member].isdir

\* the body of the loop of verify_layers with a missing blob passed over as
\* valid
LayerIsValid_MissingIsValid(arch, digest, blob_name) ==
  LET blob_member == MemberIndex(arch, blob_name)
  IN  IF blob_member = 0 THEN TRUE
      ELSE IF arch[blob_member].isdir THEN FALSE
      ELSE sha256_bytes(arch[blob_member].data) = digest

\* the body of the loop of verify_layers: is_valid for one layer, False
\* when the blob entry is absent or cannot be read as a file
LayerIsValid(arch, digest, blob_name) ==
  LET blob_member == MemberIndex(arch, blob_name)
  IN  IF blob_member = 0 THEN FALSE
      ELSE IF arch[blob_member].isdir THEN FALSE
      ELSE LET actual_digest == sha256_bytes(arch[blob_member].data)
           IN  actual_digest = digest

\* the loop of verify_layers over manifest.layers; digest.split(":")[1]
\* raises IndexError for a digest without a colon
RECURSIVE VerifyLoop(_, _, _)
VerifyLoop(arch, layers, results) ==
  IF layers = <<>> THEN [status |-> "ok", results |-> results]
  ELSE
    LET digest == Head(layers).digest
        parts  == Split(digest, 58)
    IN  IF Len(parts) < 2
        THEN [status |-> "IndexError", results |-> <<>>]
        ELSE VerifyLoop(arch, Tail(layers),
                        Append(results,
                               << digest,
                                  LayerIsValid(arch, digest,
                                               BlobEntryName(parts[2])) >>))

\* verify_layers with a missing manifest.json taken as a manifest without
\* layers
verify_layers_MissingManifestIsEmpty(arch) ==
  IF arch = <<>>
  THEN [status |-> "FileNotFoundError: archive", results |-> <<>>]
  ELSE
    LET manifest_member == MemberIndex(arch, MANIFEST_FILENAME)
    IN  IF manifest_member = 0
        THEN [status |-> "ok", results |-> <<>>]
        ELSE IF arch[manifest_member].isdir
        THEN [status |-> "RuntimeError", results |-> <<>>]
        ELSE
          LET manifest == ParseManifest(arch[manifest_member].data)
          IN  IF ~manifest.ok
              THEN [status |-> "ValueError", results |-> <<>>]
              ELSE VerifyLoop(arch, manifest.val.layers, <<>>)

\* verify_layers over every entry under blobs/sha256/ in place of the
\* layers of the manifest
verify_layers_EveryBlob(arch) ==
  IF arch = <<>>
  THEN [status |-> "FileNotFoundError: archive", results |-> <<>>]
  ELSE IF MemberIndex(arch, MANIFEST_FILENAME) = 0
  THEN [status |-> "FileNotFoundError: manifest.json", results |-> <<>>]
  ELSE [status |-> "ok",
        results |->
          LET blobs == SelectSeq(arch, LAMBDA e :
                         ~e.isdir /\ StartsAt(e.name, 1, LAYERS_DIR \o <<47>>))
          IN  [i \in 1..Len(blobs) |->
                 << SHA256_PREFIX \o <<58>>
                      \o SubSeq(blobs[i].name, Len(LAYERS_DIR) + 2,
                                Len(blobs[i].name)),
                    blobs[i].name = BlobEntryName(hexdigest(blobs[i].data)) >>]]

\* verify_layers(archive_path): the exception raised or "ok", and the list
\* of (digest, is_valid) pairs returned. The empty archive stands for a path
\* where no archive exists
verify_layers(arch) ==
  IF arch = <<>>
  THEN [status |-> "FileNotFoundError: archive", results |-> <<>>]
  ELSE
    LET manifest_member == MemberIndex(arch, MANIFEST_FILENAME)
    IN  IF manifest_member = 0
        THEN [status |-> "FileNotFoundError: manifest.json",
              results |-> <<>>]
        ELSE IF arch[manifest_member].isdir
        THEN [status |-> "RuntimeError", results |-> <<>>]
        ELSE
          LET manifest == ParseManifest(arch[manifest_member].data)
          IN  IF ~manifest.ok
              THEN [status |-> "ValueError", results |-> <<>>]
              ELSE VerifyLoop(arch, manifest.val.layers, <<>>)

\* the components of the path os.path.join(output, name) leads to below
\* output, as the file system resolves it: an empty component and "." stay
\* in place, ".." leaves the directory reached so far
RECURSIVE ResolveParts(_, _)
ResolveParts(parts, reached) ==
  IF parts = <<>> THEN reached
  ELSE ResolveParts(Tail(parts),
                    IF Head(parts) \in { <<>>, <<46>> } THEN reached
                    ELSE IF Head(parts) = <<46, 46>>
                    THEN SubSeq(reached, 1, Len(reached) - 1)
                    ELSE Append(reached, Head(parts)))

\* the file below output that an entry of that name is extracted to
TargetPath(name) ==
  LET reached == ResolveParts(PathParts(name), <<>>)
  IN  IF reached = <<>> THEN <<>> ELSE JoinParts(reached, Len(reached))

\* tar.extractall(path=output): every regular-file entry is written to the
\* file its name leads to, a later entry that leads to the same file
\* overwriting an earlier one
ExtractAll(arch, out) ==
  LET files   == { i \in 1..Len(arch) : ~arch[i].isdir }
      names   == { TargetPath(arch[i].name) : i \in files }
      last(n) == CHOOSE i \in files :
                   /\ TargetPath(arch[i].name) = n
                   /\ \A k \in files :
                        TargetPath(arch[k].name) = n => k <= i
  IN  [n \in DOMAIN out \cup names |->
         IF n \in names THEN arch[last(n)].data ELSE out[n]]

\* the filter tarfile.extractall applies when the caller names none, as
\* unpack does: "fully_trusted" up to Python 3.13, "data" from Python 3.14
ExtractionFilters ==
  { "fully_trusted", "data" }

\* a path that starts at the root
IsAbsolute(name) ==
  name # <<>> /\ name[1] = 47

\* how far below the directory it starts from a relative path ends; below
\* 0 as soon as its ".." components lead above that directory
RECURSIVE PathDepth(_, _)
PathDepth(parts, depth) ==
  IF depth < 0 \/ parts = <<>> THEN depth
  ELSE PathDepth(Tail(parts),
                 IF Head(parts) = <<46, 46>> THEN depth - 1
                 ELSE IF Head(parts) \in { <<>>, <<46>> } THEN depth
                 ELSE depth + 1)

\* os.path.join(output, name) lies outside output
EscapesOutput(name) ==
  IsAbsolute(name) \/ PathDepth(PathParts(name), 0) < 0

\* name.lstrip("/")
RECURSIVE StripSlashes(_)
StripSlashes(name) ==
  IF IsAbsolute(name) THEN StripSlashes(Tail(name)) ELSE name

\* the name a filter extracts an entry under: the "data" filter strips
\* leading slashes
FilteredName(name, filter) ==
  IF filter = "data" THEN StripSlashes(name) ELSE name

\* the index of the first entry the filter refuses (the "data" filter
\* raises OutsideDestinationError for it), 0 when it refuses none
FirstRefused(arch, filter) ==
  LET bad == { i \in 1..Len(arch) :
                 /\ filter = "data"
                 /\ EscapesOutput(FilteredName(arch[i].name, filter)) }
  IN  IF bad = {} THEN 0 ELSE CHOOSE i \in bad : \A j \in bad : i <= j

\* the entries extractall gets to, under the names the filter gives them
Extracted(arch, filter) ==
  LET stop == FirstRefused(arch, filter)
      upto == IF stop = 0 THEN Len(arch) ELSE stop - 1
  IN  [i \in 1..upto |->
         [arch[i] EXCEPT !.name = FilteredName(arch[i].name, filter)]]

\* the regular files extractall writes outside the output directory
WrittenOutside(arch, filter) ==
  LET x == SelectSeq(Extracted(arch, filter),
                     LAMBDA e : ~e.isdir /\ EscapesOutput(e.name))
  IN  [n \in { x[i].name : i \in 1..Len(x) } |-> x[MemberIndex(x, n)].data]

\* unpack(archive_path, output_dir): the exception raised or "ok", the
\* OCIConfig returned, the files of output_dir afterwards and the files
\* written outside output_dir
unpack(arch, out, filter) ==
  IF arch = <<>>
  THEN [status |-> "FileNotFoundError: archive", config |-> <<>>,
        out |-> out, outside |-> <<>>]
  ELSE
    LET output  == ExtractAll(SelectSeq(Extracted(arch, filter),
                                        LAMBDA e : ~EscapesOutput(e.name)),
                              out)
        outside == WrittenOutside(arch, filter)
    IN  IF FirstRefused(arch, filter) # 0
        THEN [status |-> "OutsideDestinationError", config |-> <<>>,
              out |-> output, outside |-> outside]
        ELSE IF CONFIG_FILENAME \notin DOMAIN output
        THEN [status |-> "FileNotFoundError: config.json", config |-> <<>>,
              out |-> output, outside |-> outside]
        ELSE LET cfg == ParseConfig(output[CONFIG_FILENAME])
             IN  IF cfg.ok
                 THEN [status |-> "ok", config |-> cfg.val, out |-> output,
                       outside |-> outside]
                 ELSE [status |-> "ValueError", config |-> <<>>,
                       out |-> output, outside |-> outside]

\* ------------------------------------------------------------------------
\* State
\* ------------------------------------------------------------------------

VARIABLES
  srcFiles,      \* the regular files of the model directory: path -> bytes
  config,        \* the OCIConfig the caller packages with
  clock,         \* the wall clock, in seconds
  archive,       \* the entries of the archive file, <<>> while it is absent
  outDir,        \* the regular files of the output directory: name -> bytes
  lastOp,        \* the operation that ran last
  pkgStatus,     \* outcome of package, while it is the last operation
  manifests,     \* the manifests built by the last two successful packages
  verifyResult,  \* outcome of verify_layers, while it is the last operation
  unpackResult,  \* outcome of unpack, while it is the last operation
  outWasEmpty,   \* the output directory was absent or empty at that unpack
  tampered,      \* names of the entries rewritten since the last package
  deleted,       \* the entries removed from the archive since then
  forged,        \* manifest.json was replaced since the last package
  addResult,     \* outcome of add_layer, while it is the last operation
  added,         \* the number of entries add_layer appended since then
  outside,       \* the files unpack wrote outside the output directory
  pkgCall,       \* argument and return value of package, while it is the last operation
  tmpAreas,      \* the work areas in the temporary directory, in the order of their making
  cmCall,        \* the layers handed to create_manifest and the manifest returned, while it is the last operation
  runs,          \* the two invocations that run side by side: operation, position, local variables
  work,          \* the temporary directory they share: the work areas in it, by name
  disk,          \* the archive and the output directory of each of the two, at different paths
  nested         \* the number of archives package has written into the model directory

vars ==
  << srcFiles, config, clock, archive, outDir, lastOp, pkgStatus, manifests,
     verifyResult, unpackResult, outWasEmpty, tampered, deleted, forged,
     addResult, added, outside,
     pkgCall,
     tmpAreas,
     cmCall,
     runs,
     work,
     disk,
     nested >>

\* no verify_layers result, no unpack result
NoVerify ==
  [status |-> "none", results |-> <<>>]

NoUnpack ==
  [status |-> "none", config |-> <<>>]

\* the two invocations that run side by side
Procs ==
  { 1, 2 }

\* the model directory of each of the two: the first holds b, the second
\* a/b and b
RunFiles(p) ==
  IF p = 1 THEN [q \in { <<98>> } |-> ModelFiles[q]]
  ELSE [q \in { <<97, 47, 98>>, <<98>> } |-> ModelFiles[q]]

\* the archive each of the two starts with: its model directory as
\* packaged in second 0
RunArchive(cfg, p) ==
  package(ModelDir, cfg, RunFiles(p), 0, "none").entries

\* an invocation that has not begun
NoRun ==
  [op |-> "none", pc |-> "idle", tmp |-> <<>>, layers |-> <<>>,
   ret |-> <<>>, beside |-> FALSE]

\* no call of package
NoCall ==
  [model_dir |-> <<>>, returned |-> <<>>, tmp |-> <<>>]

\* no call of create_manifest
NoManifestCall ==
  [called |-> FALSE, layers |-> <<>>, manifest |-> <<>>]

\* no add_layer result
NoAdd ==
  [status |-> "none", path |-> <<>>, layer |-> NoLayer, tmp |-> <<>>]

Init ==
  /\ srcFiles \in SourceDirs
  /\ config \in Configs
  /\ clock = 0
  /\ archive = <<>>
  /\ outDir = <<>>
  /\ lastOp = "none"
  /\ pkgStatus = "none"
  /\ manifests = <<>>
  /\ verifyResult = NoVerify
  /\ unpackResult = NoUnpack
  /\ outWasEmpty = FALSE
  /\ tampered = {}
  /\ deleted = {}
  /\ forged = FALSE
  /\ addResult = NoAdd
  /\ added = 0
  /\ outside = <<>>
  /\ pkgCall = NoCall
  /\ tmpAreas = <<>>
  /\ cmCall = NoManifestCall
  /\ runs = [p \in Procs |-> NoRun]
  /\ work = <<>>
  /\ disk = [p \in Procs |-> [archive |-> RunArchive(config, p), out |-> <<>>]]
  /\ nested = 0

\* ------------------------------------------------------------------------
\* Operations
\* ------------------------------------------------------------------------

\* a second passes
Tick ==
  /\ clock < MaxClock
  /\ clock' = clock + 1
  /\ UNCHANGED << srcFiles, config, archive, outDir, lastOp, pkgStatus,
                  manifests, verifyResult, unpackResult, outWasEmpty,
                  tampered, deleted, forged, addResult, added, outside, pkgCall, tmpAreas, cmCall, runs, work, disk, nested >>

\* the effect of one call package(model_dir, config) with the outcome r:
\* the archive lands beside the model directory ("/m-1.tar", the archive of
\* the model) or, when its path lies in the model directory, among the model
\* directory's regular files
PackageEffect(model_dir, r, ok, inside, beside) ==
  /\ archive' = IF beside THEN r.entries ELSE archive
  /\ srcFiles' = IF inside THEN WithArchive(srcFiles, r.path, r.entries)
                 ELSE srcFiles
  /\ manifests' = IF ok
                  THEN (IF manifests = <<>> THEN <<>>
                        ELSE << manifests[Len(manifests)] >>)
                       \o << r.manifest >>
                  ELSE manifests
  /\ pkgCall' = [model_dir |-> model_dir, returned |-> r.path,
                 tmp |-> r.tmp]
  /\ tmpAreas' = IF r.entered
                 THEN TemporaryDirectory(tmpAreas, r.tmp, r.status)
                 ELSE tmpAreas
  /\ lastOp' = "package"
  /\ pkgStatus' = r.status
  /\ verifyResult' = NoVerify
  /\ unpackResult' = NoUnpack
  /\ tampered' = IF beside THEN {} ELSE tampered
  /\ deleted' = IF beside THEN {} ELSE deleted
  /\ forged' = IF beside THEN FALSE ELSE forged
  /\ addResult' = NoAdd
  /\ added' = IF beside THEN 0 ELSE added
  /\ cmCall' = NoManifestCall
  /\ nested' = IF inside THEN nested + 1 ELSE nested
  /\ UNCHANGED << config, clock, outDir, outWasEmpty, outside, runs, work,
                  disk >>

PackageOutcome(model_dir, r) ==
  PackageEffect(model_dir, r, r.status = "ok",
                r.status = "ok" /\ InModelDir(r.path),
                r.status = "ok" /\ ~InModelDir(r.path))

\* one call package(model_dir, config)
PackageCall(model_dir) ==
  PackageOutcome(model_dir,
                 package(model_dir, config, srcFiles, clock, "none"))

\* package(model_dir, config) on a path that is not a directory
PackageNotADirectory ==
  \E d \in BadPaths : PackageCall(d)

\* package(model_dir, config) on the model directory
Package ==
  PackageCall(ModelDir)

\* package(".", config) with the model directory as working directory
PackageCwd ==
  /\ nested < MaxNested
  /\ PackageCall(CurDir)

\* package(model_dir, config) on the model directory, failed by the file
\* system after the work area was made
PackageFails ==
  \E fault \in PackageFaults :
    /\ fault = "walk" => DOMAIN srcFiles # {}
    /\ PackageOutcome(ModelDir,
                      package(ModelDir, config, srcFiles, clock, fault))

\* create_manifest(config, layers) on a list of layers of the caller's
CreateManifest ==
  \E layers \in LayerLists :
    /\ cmCall' = [called |-> TRUE, layers |-> layers,
                  manifest |-> create_manifest(config, layers)]
    /\ lastOp' = "create_manifest"
    /\ pkgStatus' = "none"
    /\ verifyResult' = NoVerify
    /\ unpackResult' = NoUnpack
    /\ addResult' = NoAdd
    /\ pkgCall' = NoCall
    /\ UNCHANGED << srcFiles, config, clock, archive, outDir, manifests,
                    outWasEmpty, tampered, deleted, forged, added, outside,
                    tmpAreas, runs, work, disk, nested >>

\* verify_layers(archive_path)
VerifyLayers ==
  /\ verifyResult' = verify_layers(archive)
  /\ lastOp' = "verify"
  /\ pkgStatus' = "none"
  /\ unpackResult' = NoUnpack
  /\ addResult' = NoAdd
  /\ pkgCall' = NoCall
  /\ cmCall' = NoManifestCall
  /\ UNCHANGED << srcFiles, config, clock, archive, outDir, manifests,
                  outWasEmpty, tampered, deleted, forged, added, outside, tmpAreas, runs, work, disk, nested >>

\* unpack(archive_path, output_dir), into the output directory as it is or
\* into a fresh one, on either build of tarfile
Unpack ==
  \E fresh \in BOOLEAN, filter \in ExtractionFilters :
    LET before == IF fresh THEN <<>> ELSE outDir
        r      == unpack(archive, before, filter)
    IN  /\ outDir' = r.out
        /\ outside' = [n \in DOMAIN outside \cup DOMAIN r.outside |->
                         IF n \in DOMAIN r.outside THEN r.outside[n]
                         ELSE outside[n]]
        /\ unpackResult' = [status |-> r.status, config |-> r.config]
        /\ outWasEmpty' = (DOMAIN before = {})
        /\ lastOp' = "unpack"
        /\ pkgStatus' = "none"
        /\ verifyResult' = NoVerify
        /\ addResult' = NoAdd
        /\ pkgCall' = NoCall
        /\ cmCall' = NoManifestCall
        /\ UNCHANGED << srcFiles, config, clock, archive, manifests,
                        tampered, deleted, forged, added, tmpAreas, runs, work, disk, nested >>

\* the effect of one call add_layer(archive_path, file_path) with the
\* outcome r
AddLayerEffect(p, r) ==
  /\ r.status = "ok" => added < MaxAdds
  /\ archive' = r.archive
  /\ addResult' = [status |-> r.status, path |-> p, layer |-> r.layer,
                   tmp |-> r.tmp]
  /\ tmpAreas' = IF r.entered
                 THEN TemporaryDirectory(tmpAreas, r.tmp, r.status)
                 ELSE tmpAreas
  /\ added' = IF r.status = "ok" THEN added + 1 ELSE added
  /\ lastOp' = "add_layer"
  /\ pkgStatus' = "none"
  /\ verifyResult' = NoVerify
  /\ unpackResult' = NoUnpack
  /\ pkgCall' = NoCall
  /\ cmCall' = NoManifestCall
  /\ UNCHANGED << srcFiles, config, clock, outDir, manifests,
                  outWasEmpty, tampered, deleted, forged, outside, runs, work, disk, nested >>

\* add_layer(archive_path, file_path) on the archive of the model
AddLayer ==
  \E p \in AddPaths :
    AddLayerEffect(p, add_layer(archive, p, srcFiles, clock, "none"))

\* add_layer(archive_path, file_path) on a regular file, failed by the file
\* system after the work area was made
AddLayerFails ==
  \E p \in AddPaths, fault \in AddFaults :
    /\ path_is_file(srcFiles, p)
    /\ AddLayerEffect(p, add_layer(archive, p, srcFiles, clock, fault))

\* another invocation than p is between its first and its last step
OtherBusy(p) ==
  \E q \in Procs \ { p } : runs[q].pc \notin { "idle", "done" }

\* one step of invocation p, which ends with the local variables r, the
\* temporary directory w and the archive and output directory d of p
RunStep(p, r, w, d) ==
  /\ runs' = [runs EXCEPT ![p] = r]
  /\ work' = w
  /\ disk' = [disk EXCEPT ![p] = d]
  /\ UNCHANGED << srcFiles, config, clock, archive, outDir, lastOp, pkgStatus,
                  manifests, verifyResult, unpackResult, outWasEmpty,
                  tampered, deleted, forged, addResult, added, outside,
                  pkgCall, tmpAreas, cmCall, nested >>

\* package(model_dir, config) of invocation p, one access to the file
\* system at a time: the work area is made, one blob is written per file of
\* the walk, then the config blob, manifest.json and config.json, the work
\* area is bundled into the archive, the work area is removed
PackageRun(p) ==
  \/ /\ runs[p].pc = "idle"
     /\ \E name \in mkdtemp(work) :
          RunStep(p, [runs[p] EXCEPT !.op = "package", !.pc = "walk",
                                     !.tmp = name,
                                     !.beside = OtherBusy(p)],
                  [n \in DOMAIN work \cup { name } |->
                     IF n \in DOMAIN work THEN work[n] ELSE <<>>],
                  disk[p])
  \/ /\ runs[p].op = "package" /\ runs[p].pc = "walk"
     /\ Len(runs[p].layers) < Len(WalkOrder(RunFiles(p)))
     /\ LET path == WalkOrder(RunFiles(p))[Len(runs[p].layers) + 1]
            blob == create_layer_blob(ModelDir \o <<47>> \o path,
                                      RunFiles(p)[path], ModelDir, clock)
        IN  RunStep(p, [runs[p] EXCEPT
                          !.layers = Append(runs[p].layers, blob.layer)],
                    WriteArea(work, runs[p].tmp, blob.name, blob.data),
                    disk[p])
  \/ /\ runs[p].op = "package" /\ runs[p].pc = "walk"
     /\ Len(runs[p].layers) = Len(WalkOrder(RunFiles(p)))
     /\ RunStep(p, [runs[p] EXCEPT !.pc = "bundle"],
                WriteArea(
                  WriteArea(
                    WriteArea(work, runs[p].tmp,
                              BlobEntryName(hexdigest(ConfigDumpJson(config, 2))),
                              ConfigDumpJson(config, 2)),
                    runs[p].tmp, MANIFEST_FILENAME,
                    ManifestDumpJson(create_manifest(config, runs[p].layers),
                                     2)),
                  runs[p].tmp, CONFIG_FILENAME, ConfigDumpJson(config, 2)),
                disk[p])
  \/ /\ runs[p].op = "package" /\ runs[p].pc = "bundle"
     /\ RunStep(p, [runs[p] EXCEPT !.pc = "exit"], work,
                [disk[p] EXCEPT !.archive = TarAdd(Area(work, runs[p].tmp))])
  \/ /\ runs[p].op = "package" /\ runs[p].pc = "exit"
     /\ RunStep(p, [runs[p] EXCEPT !.pc = "done",
                                   !.ret = output_archive(ModelDir, config)],
                [n \in DOMAIN work \ { runs[p].tmp } |-> work[n]], disk[p])

\* add_layer(archive_path, file_path) of invocation p on the file b of its
\* model directory, one access to the file system at a time: the work area
\* is made, the blob is written, the blob is appended to the archive, the
\* work area is removed
AddLayerRun(p) ==
  \/ /\ runs[p].pc = "idle"
     /\ path_is_file(RunFiles(p), ModelDir \o <<47, 98>>)
     /\ \E name \in mkdtemp(work) :
          RunStep(p, [runs[p] EXCEPT !.op = "add_layer", !.pc = "blob",
                                     !.tmp = name,
                                     !.beside = OtherBusy(p)],
                  [n \in DOMAIN work \cup { name } |->
                     IF n \in DOMAIN work THEN work[n] ELSE <<>>],
                  disk[p])
  \/ /\ runs[p].op = "add_layer" /\ runs[p].pc = "blob"
     /\ LET blob == create_layer_blob(ModelDir \o <<47, 98>>,
                                      read_bytes(RunFiles(p),
                                                 ModelDir \o <<47, 98>>),
                                      <<>>, clock)
        IN  RunStep(p, [runs[p] EXCEPT !.pc = "append",
                                       !.layers = << blob.layer >>],
                    WriteArea(work, runs[p].tmp, blob.name, blob.data),
                    disk[p])
  \/ /\ runs[p].op = "add_layer" /\ runs[p].pc = "append"
     /\ LET name == BlobEntryName(Split(runs[p].layers[1].digest, 58)[2])
        IN  RunStep(p, [runs[p] EXCEPT !.pc = "exit"], work,
                    [disk[p] EXCEPT !.archive =
                       Append(disk[p].archive,
                              FileEntry(name,
                                        IF name \in DOMAIN Area(work,
                                                                runs[p].tmp)
                                        THEN Area(work, runs[p].tmp)[name]
                                        ELSE <<>>))])
  \/ /\ runs[p].op = "add_layer" /\ runs[p].pc = "exit"
     /\ RunStep(p, [runs[p] EXCEPT !.pc = "done",
                                   !.ret = runs[p].layers[1]],
                [n \in DOMAIN work \ { runs[p].tmp } |-> work[n]], disk[p])

\* unpack(archive_path, output_dir) of invocation p: the archive is
\* extracted into the output directory, then config.json is read there
UnpackRun(p) ==
  \/ /\ runs[p].pc = "idle"
     /\ RunStep(p, [runs[p] EXCEPT !.op = "unpack", !.pc = "read",
                                     !.beside = OtherBusy(p)], work,
                [disk[p] EXCEPT !.out =
                   unpack(disk[p].archive, disk[p].out, "data").out])
  \/ /\ runs[p].op = "unpack" /\ runs[p].pc = "read"
     /\ RunStep(p, [runs[p] EXCEPT
                      !.pc = "done",
                      !.ret = IF CONFIG_FILENAME \in DOMAIN disk[p].out
                              THEN ParseConfig(disk[p].out[CONFIG_FILENAME])
                              ELSE ParseFail],
                work, disk[p])

\* verify_layers(archive_path) of invocation p: the archive is opened, then
\* read
VerifyRun(p) ==
  \/ /\ runs[p].pc = "idle"
     /\ RunStep(p, [runs[p] EXCEPT !.op = "verify", !.pc = "loop",
                                     !.beside = OtherBusy(p)], work,
                disk[p])
  \/ /\ runs[p].op = "verify" /\ runs[p].pc = "loop"
     /\ RunStep(p, [runs[p] EXCEPT !.pc = "done",
                                   !.ret = verify_layers(disk[p].archive)],
                work, disk[p])

\* ------------------------------------------------------------------------
\* What happens to an archive between packing and verification
\* ------------------------------------------------------------------------

\* the number of changes made to the archive since it was packaged
Damage ==
  Cardinality(tampered) + Cardinality(deleted) + (IF forged THEN 1 ELSE 0)

\* the indexes of the blob entries of the archive
BlobIndexes(arch) ==
  { i \in 1..Len(arch) :
      ~arch[i].isdir /\ StartsAt(arch[i].name, 1, LAYERS_DIR \o <<47>>) }

\* the bytes a tampered entry may get: a truncation of its bytes, or one
\* changed byte
TamperedBytes(data) ==
  { SubSeq(data, 1, Len(data) - 1), [data EXCEPT ![1] = (data[1] + 1) % 256] }

\* the bytes of one blob entry are replaced, under the same entry name
TamperBlob ==
  \E i \in BlobIndexes(archive) :
    \E bytes \in TamperedBytes(archive[i].data) :
      /\ Damage < MaxDamage
      /\ archive[i].name \notin tampered
      /\ archive' = [archive EXCEPT ![i].data = bytes]
      /\ tampered' = tampered \cup {archive[i].name}
      /\ lastOp' = "damage"
      /\ pkgStatus' = "none"
      /\ verifyResult' = NoVerify
      /\ unpackResult' = NoUnpack
      /\ addResult' = NoAdd
      /\ pkgCall' = NoCall
      /\ cmCall' = NoManifestCall
      /\ UNCHANGED << srcFiles, config, clock, outDir, manifests,
                      outWasEmpty, deleted, forged, added, outside, tmpAreas, runs, work, disk, nested >>

\* one blob is removed from the archive
DeleteBlob ==
  \E i \in BlobIndexes(archive) :
    /\ Damage < MaxDamage
    /\ archive' = SelectSeq(archive, LAMBDA e : e.name # archive[i].name)
    /\ deleted' = deleted \cup {archive[i]}
    /\ lastOp' = "damage"
    /\ pkgStatus' = "none"
    /\ verifyResult' = NoVerify
    /\ unpackResult' = NoUnpack
    /\ addResult' = NoAdd
    /\ pkgCall' = NoCall
    /\ cmCall' = NoManifestCall
    /\ UNCHANGED << srcFiles, config, clock, outDir, manifests, outWasEmpty,
                    tampered, forged, added, outside, tmpAreas, runs, work, disk, nested >>

\* manifest.json is replaced by a manifest in which one layer's digest lost
\* its algorithm prefix ("<hex>" in place of "sha256:<hex>")
ForgeManifest ==
  /\ ~forged
  /\ Damage < MaxDamage
  /\ MemberIndex(archive, MANIFEST_FILENAME) # 0
  /\ LET mi == MemberIndex(archive, MANIFEST_FILENAME)
         m  == ParseManifest(archive[mi].data)
     IN  /\ m.ok
         /\ \E k \in 1..Len(m.val.layers) :
              LET hex == Split(m.val.layers[k].digest, 58)[2]
                  f   == [m.val EXCEPT !.layers[k].digest = hex]
              IN  archive' = [archive EXCEPT
                                ![mi].data = ManifestDumpJson(f, 2)]
  /\ forged' = TRUE
  /\ lastOp' = "damage"
  /\ pkgStatus' = "none"
  /\ verifyResult' = NoVerify
  /\ unpackResult' = NoUnpack
  /\ addResult' = NoAdd
  /\ pkgCall' = NoCall
  /\ cmCall' = NoManifestCall
  /\ UNCHANGED << srcFiles, config, clock, outDir, manifests, outWasEmpty,
                  tampered, deleted, added, outside, tmpAreas, runs, work, disk, nested >>

\* the names of the entries a hostile archive may carry: "../h" and "/h"
HostileNames ==
  { <<46, 46, 47, 104>>, <<47, 104>> }

\* an entry whose name leads out of the extraction directory is put behind
\* the entries of the archive
PlantEntry ==
  \E name \in HostileNames :
    /\ archive # <<>>
    /\ Damage < MaxDamage
    /\ name \notin tampered
    /\ archive' = Append(archive, FileEntry(name, <<69>>))
    /\ tampered' = tampered \cup {name}
    /\ lastOp' = "damage"
    /\ pkgStatus' = "none"
    /\ verifyResult' = NoVerify
    /\ unpackResult' = NoUnpack
    /\ addResult' = NoAdd
    /\ pkgCall' = NoCall
    /\ cmCall' = NoManifestCall
    /\ UNCHANGED << srcFiles, config, clock, outDir, manifests, outWasEmpty,
                    deleted, forged, added, outside, tmpAreas, runs, work, disk, nested >>

\* the names under which a tar tool may append an entry that is extracted
\* to the file of that name: the name itself and "./" before it
EntryAliases(name) ==
  { name, <<46, 47>> \o name }

\* an entry for a blob of the archive is put behind the entries of the
\* archive, as tarfile's mode "a" or tar -r does: under the blob's name or
\* an alias of it, with the blob's bytes or with other bytes
AppendBlob ==
  \E i \in BlobIndexes(archive) :
    \E name \in EntryAliases(archive[i].name),
       bytes \in {archive[i].data} \cup TamperedBytes(archive[i].data) :
      /\ Cardinality(tampered) < MaxAppended
      /\ archive' = Append(archive, FileEntry(name, bytes))
      /\ tampered' = tampered \cup {name}
      /\ lastOp' = "damage"
      /\ pkgStatus' = "none"
      /\ verifyResult' = NoVerify
      /\ unpackResult' = NoUnpack
      /\ addResult' = NoAdd
      /\ pkgCall' = NoCall
      /\ cmCall' = NoManifestCall
      /\ UNCHANGED << srcFiles, config, clock, outDir, manifests,
                      outWasEmpty, deleted, forged, added, outside, tmpAreas,
                      runs, work, disk, nested >>

\* config.json or manifest.json is removed from the archive
RemoveMetaFile ==
  \E name \in { CONFIG_FILENAME, MANIFEST_FILENAME } :
    /\ MemberIndex(archive, name) # 0
    /\ Damage < MaxDamage
    /\ archive' = SelectSeq(archive, LAMBDA e : e.name # name)
    /\ deleted' = deleted \cup { archive[MemberIndex(archive, name)] }
    /\ lastOp' = "damage"
    /\ pkgStatus' = "none"
    /\ verifyResult' = NoVerify
    /\ unpackResult' = NoUnpack
    /\ addResult' = NoAdd
    /\ pkgCall' = NoCall
    /\ cmCall' = NoManifestCall
    /\ UNCHANGED << srcFiles, config, clock, outDir, manifests, outWasEmpty,
                    tampered, forged, added, outside, tmpAreas, runs, work, disk, nested >>

\* the bytes of config.json are replaced in the archive
TamperConfig ==
  \E bytes \in TamperedBytes(
                 IF MemberIndex(archive, CONFIG_FILENAME) = 0 THEN << 0 >>
                 ELSE archive[MemberIndex(archive, CONFIG_FILENAME)].data) :
    /\ MemberIndex(archive, CONFIG_FILENAME) # 0
    /\ Damage < MaxDamage
    /\ CONFIG_FILENAME \notin tampered
    /\ archive' = [archive EXCEPT
                     ![MemberIndex(archive, CONFIG_FILENAME)].data = bytes]
    /\ tampered' = tampered \cup { CONFIG_FILENAME }
    /\ lastOp' = "damage"
    /\ pkgStatus' = "none"
    /\ verifyResult' = NoVerify
    /\ unpackResult' = NoUnpack
    /\ addResult' = NoAdd
    /\ pkgCall' = NoCall
    /\ cmCall' = NoManifestCall
    /\ UNCHANGED << srcFiles, config, clock, outDir, manifests, outWasEmpty,
                    deleted, forged, added, outside, tmpAreas, runs, work,
                    disk, nested >>

\* ------------------------------------------------------------------------
\* Specifications
\* ------------------------------------------------------------------------

\* every operation
Next ==
  \/ Tick
  \/ PackageNotADirectory
  \/ Package
  \/ PackageCwd
  \/ PackageFails
  \/ CreateManifest
  \/ VerifyLayers
  \/ Unpack
  \/ TamperBlob
  \/ DeleteBlob
  \/ ForgeManifest
  \/ AddLayer
  \/ AddLayerFails
  \/ PlantEntry
  \/ RemoveMetaFile
  \/ TamperConfig
  \/ AppendBlob

Spec ==
  Init /\ [][Next]_vars

\* packaging alone, at any time
NextPack ==
  \/ Tick
  \/ PackageNotADirectory
  \/ Package

SpecPack ==
  Init /\ [][NextPack]_vars

\* packaging, damage to the archive, verification
NextVerify ==
  \/ Package
  \/ TamperBlob
  \/ DeleteBlob
  \/ ForgeManifest
  \/ VerifyLayers

SpecVerify ==
  Init /\ [][NextVerify]_vars

\* packaging and unpacking, at any time
NextUnpack ==
  \/ Tick
  \/ Package
  \/ Unpack

SpecUnpack ==
  Init /\ [][NextUnpack]_vars

\* packaging, removal of blobs and add_layer, within one second
NextAdd ==
  \/ Package
  \/ DeleteBlob
  \/ AddLayer

SpecAdd ==
  Init /\ [][NextAdd]_vars

\* archives with entries that lead out of the output directory, unpacked
NextHostile ==
  \/ Package
  \/ PlantEntry
  \/ Unpack

SpecHostile ==
  Init /\ [][NextHostile]_vars

\* archives that lack config.json or manifest.json, unpacked and verified
NextMalformed ==
  \/ Package
  \/ RemoveMetaFile
  \/ Unpack
  \/ VerifyLayers

SpecMalformed ==
  Init /\ [][NextMalformed]_vars

\* packaging under every name of the model directory, and on paths that are
\* no directory
NextFrame ==
  \/ PackageNotADirectory
  \/ Package
  \/ PackageCwd

SpecFrame ==
  Init /\ [][NextFrame]_vars

\* packaging and adding layers, with the failures of the file system
NextTemp ==
  \/ PackageNotADirectory
  \/ Package
  \/ PackageFails
  \/ AddLayer
  \/ AddLayerFails

SpecTemp ==
  Init /\ [][NextTemp]_vars

\* packaging, and manifests built by the caller, within one second
NextManifest ==
  \/ Package
  \/ CreateManifest

SpecManifest ==
  Init /\ [][NextManifest]_vars

\* two invocations on different archives, side by side, in a model
\* directory without files of its own
InitRuns ==
  Init /\ DOMAIN srcFiles = {}

NextRuns ==
  \E p \in Procs :
    \/ PackageRun(p)
    \/ AddLayerRun(p)
    \/ UnpackRun(p)
    \/ VerifyRun(p)

SpecRuns ==
  InitRuns /\ [][NextRuns]_vars

\* an archive changed beside its manifest and its layers, and verified
NextBystander ==
  \/ Package
  \/ TamperBlob
  \/ DeleteBlob
  \/ TamperConfig
  \/ VerifyLayers

SpecBystander ==
  Init /\ [][NextBystander]_vars

\* an archive with an entry appended to it, and verified
NextDuplicates ==
  \/ Package
  \/ AppendBlob
  \/ VerifyLayers

SpecDuplicates ==
  Init /\ [][NextDuplicates]_vars

\* ------------------------------------------------------------------------
\* Reading the state
\* ------------------------------------------------------------------------

\* the archive holds an entry of that name
HasEntry(arch, name) ==
  MemberIndex(arch, name) # 0

\* the bytes of the (last) entry of that name
EntryData(arch, name) ==
  arch[MemberIndex(arch, name)].data

\* the manifest read back from the archive's manifest.json
ArchiveManifest ==
  ParseManifest(EntryData(archive, MANIFEST_FILENAME)).val

\* the last operation was a package call that succeeded
Packaged ==
  lastOp = "package" /\ pkgStatus = "ok"

\* the archive exists and is as the last successful package wrote it
FreshArchive ==
  archive # <<>> /\ Damage = 0

\* the number of regular files of the model directory
N ==
  Cardinality(DOMAIN srcFiles)

\* the archive entry name of the blob a digest string "sha256:<hex>" names
BlobOf(digest) ==
  BlobEntryName(Split(digest, 58)[2])

\* ------------------------------------------------------------------------
\* Properties
\* ------------------------------------------------------------------------

\* C1: after a successful package, the config descriptor of manifest.json
\* describes the config bytes stored in the archive: its digest is the
\* sha256 digest of the bytes of config.json, the blob it names is stored
\* with those bytes, and its size is their length.
C1_ConfigDescriptorMatchesStoredBytes ==
  Packaged =>
    LET d     == ArchiveManifest.config
        bytes == EntryData(archive, CONFIG_FILENAME)
    IN  /\ d.digest = sha256_bytes(bytes)
        /\ d.size = Len(bytes)
        /\ HasEntry(archive, BlobOf(d.digest))
        /\ EntryData(archive, BlobOf(d.digest)) = bytes

\* C2: the manifest written by package has exactly N layers, N the number
\* of regular files below the model directory (nested ones included, N = 0
\* included).
C2_LayerCount ==
  Packaged => Len(ArchiveManifest.layers) = N

\* a package of a directory with a nested file and a second file
C2_Witness ==
  /\ Packaged
  /\ N = 2
  /\ <<97, 47, 98>> \in DOMAIN srcFiles
  /\ Len(ArchiveManifest.layers) = 2

\* a package of the empty directory
C2_WitnessEmpty ==
  Packaged /\ N = 0 /\ ArchiveManifest.layers = <<>>

\* C7 as stated: the title of layers[i] is the i-th relative path when the
\* relative paths are sorted as full path strings.
C7_OrderedByFullPathString ==
  Packaged =>
    LET order == SortedStrs(DOMAIN srcFiles)
    IN  /\ Len(ArchiveManifest.layers) = Len(order)
        /\ \A i \in 1..Len(order) :
             ArchiveManifest.layers[i].annotations.title = order[i]

\* C7 as amended: the layers are in the order of pathlib paths, in which
\* paths are compared component by component: the titles are the relative
\* paths of the regular files, each once, and of two layers the earlier has
\* the smaller component at the first component where the two paths differ
\* (or is a proper prefix of the later).
C7_OrderedByPathComponents ==
  Packaged =>
    LET layers == ArchiveManifest.layers
        parts(i) == Split(layers[i].annotations.title, 47)
    IN  /\ { layers[i].annotations.title : i \in 1..Len(layers) }
             = DOMAIN srcFiles
        /\ Len(layers) = N
        /\ \A i, j \in 1..Len(layers) :
             i < j =>
               \E k \in 1..(Len(parts(i)) + 1) :
                 /\ k <= Len(parts(j))
                 /\ \A h \in 1..(k - 1) : parts(i)[h] = parts(j)[h]
                 /\ (k = Len(parts(i)) + 1
                       \/ StrLess(parts(i)[k], parts(j)[k]))

\* a package of "a.b" and "a/b": the nested file comes first
C7_Witness ==
  /\ Packaged
  /\ DOMAIN srcFiles = { <<97, 46, 98>>, <<97, 47, 98>> }
  /\ ArchiveManifest.layers[1].annotations.title = <<97, 47, 98>>
  /\ ArchiveManifest.layers[2].annotations.title = <<97, 46, 98>>

\* C8: two packagings of the same directory with the same config, at any
\* two points in time, build the same manifest: same layer count, same
\* order, same digest for every layer and for the config descriptor.
C8_SameManifestAtAnyTime ==
  Len(manifests) = 2 =>
    /\ Len(manifests[1].layers) = Len(manifests[2].layers)
    /\ \A i \in 1..Len(manifests[1].layers) :
         /\ i <= Len(manifests[2].layers)
         /\ manifests[1].layers[i].digest = manifests[2].layers[i].digest
         /\ manifests[1].layers[i].annotations
              = manifests[2].layers[i].annotations
    /\ manifests[1].config.digest = manifests[2].config.digest

\* C3: in a freshly packaged archive every layer of the manifest has its
\* blob entry blobs/sha256/<hex of layer.digest>, the bytes of the entry
\* hash to layer.digest and their length is layer.size; and verify_layers
\* on such an archive returns true for every layer.
C3_FreshArchiveVerifies ==
  FreshArchive =>
    /\ \A i \in 1..Len(ArchiveManifest.layers) :
         LET l == ArchiveManifest.layers[i]
         IN  /\ HasEntry(archive, BlobOf(l.digest))
             /\ sha256_bytes(EntryData(archive, BlobOf(l.digest))) = l.digest
             /\ Len(EntryData(archive, BlobOf(l.digest))) = l.size
    /\ lastOp = "verify" =>
         /\ verifyResult.status = "ok"
         /\ Len(verifyResult.results) = N
         /\ \A i \in 1..Len(verifyResult.results) :
              verifyResult.results[i][2] = TRUE

\* verify_layers has run on a fresh archive of two layers
C3_Witness ==
  /\ FreshArchive
  /\ lastOp = "verify"
  /\ Len(verifyResult.results) = 2
  /\ \A i \in 1..2 : verifyResult.results[i][2]

\* C4: when the bytes of blob entries were replaced by different bytes
\* under the same names after packing (and nothing else was done to the
\* archive), verify_layers returns false for the layers whose blob was
\* replaced and true for every layer whose blob was not touched.
C4_TamperDetected ==
  (lastOp = "verify" /\ archive # <<>> /\ tampered # {} /\ deleted = {}
     /\ ~forged) =>
    /\ verifyResult.status = "ok"
    /\ Len(verifyResult.results) = Len(ArchiveManifest.layers)
    /\ \A i \in 1..Len(verifyResult.results) :
         verifyResult.results[i]
           = << ArchiveManifest.layers[i].digest,
                BlobOf(ArchiveManifest.layers[i].digest) \notin tampered >>

\* verify_layers has run on an archive with one layer blob replaced and
\* another left alone
C4_Witness ==
  /\ lastOp = "verify"
  /\ Cardinality(tampered) = 1
  /\ deleted = {}
  /\ ~forged
  /\ Len(verifyResult.results) = 2
  /\ \E i, j \in 1..2 :
       /\ ~verifyResult.results[i][2]
       /\ BlobOf(verifyResult.results[i][1]) \in tampered
       /\ verifyResult.results[j][2]

\* the archive with the entries put back at its end
RECURSIVE Restored(_, _)
Restored(arch, entries) ==
  IF entries = {} THEN arch
  ELSE LET e == CHOOSE x \in entries : TRUE
       IN  Restored(Append(arch, e), entries \ {e})

\* C5: when blob entries referenced by the manifest are absent from the
\* archive, verify_layers does not raise, reports false for their digests,
\* and reports for every other layer what it reports on the archive with
\* the blobs present.
C5_MissingBlobReported ==
  (lastOp = "verify" /\ archive # <<>> /\ deleted # {} /\ ~forged) =>
    LET gone    == { e.name : e \in deleted }
        present == verify_layers(Restored(archive, deleted))
    IN  /\ verifyResult.status = "ok"
        /\ Len(verifyResult.results) = Len(ArchiveManifest.layers)
        /\ \A i \in 1..Len(verifyResult.results) :
             LET d == ArchiveManifest.layers[i].digest
             IN  verifyResult.results[i]
                   = IF BlobOf(d) \in gone THEN <<d, FALSE>>
                     ELSE present.results[i]

\* verify_layers has run on an archive of two layers, one of whose blobs is
\* missing
C5_Witness ==
  /\ lastOp = "verify"
  /\ Cardinality(deleted) = 1
  /\ tampered = {}
  /\ ~forged
  /\ verifyResult.status = "ok"
  /\ Len(verifyResult.results) = 2
  /\ \E i, j \in 1..2 :
       /\ ~verifyResult.results[i][2]
       /\ BlobOf(verifyResult.results[i][1]) \in { e.name : e \in deleted }
       /\ verifyResult.results[j][2]

\* C6: for every archive whose manifest.json is present and parses as an
\* OCIManifest, verify_layers returns one (digest, is_valid) pair per
\* manifest layer, in manifest order, the i-th pair carrying the i-th
\* layer's digest.
C6_CompleteResult ==
  (lastOp = "verify" /\ archive # <<>>
     /\ HasEntry(archive, MANIFEST_FILENAME)
     /\ ParseManifest(EntryData(archive, MANIFEST_FILENAME)).ok) =>
    /\ verifyResult.status = "ok"
    /\ Len(verifyResult.results) = Len(ArchiveManifest.layers)
    /\ \A i \in 1..Len(verifyResult.results) :
         verifyResult.results[i][1] = ArchiveManifest.layers[i].digest

OutBlobs ==
  { n \in DOMAIN outDir : StartsAt(n, 1, LAYERS_DIR \o <<47>>) }

\* C10 as stated: after unpack of a packaged archive into an absent or
\* empty output directory, the directory holds exactly N + 2 regular files:
\* N blobs under blobs/sha256/, config.json and manifest.json.
C10_OutputHoldsNPlus2Files ==
  (lastOp = "unpack" /\ FreshArchive /\ outWasEmpty) =>
    /\ Cardinality(DOMAIN outDir) = N + 2
    /\ Cardinality(OutBlobs) = N
    /\ CONFIG_FILENAME \in DOMAIN outDir
    /\ MANIFEST_FILENAME \in DOMAIN outDir

\* C10 as amended: the directory holds exactly N + 3 regular files: under
\* blobs/sha256/ the N layer blobs of the manifest and the config blob
\* (named by the digest of the bytes of config.json), then config.json and
\* manifest.json.
C10_OutputHoldsNPlus3Files ==
  (lastOp = "unpack" /\ FreshArchive /\ outWasEmpty) =>
    LET layers == ParseManifest(outDir[MANIFEST_FILENAME]).val.layers
    IN  /\ Cardinality(DOMAIN outDir) = N + 3
        /\ Cardinality({ BlobOf(layers[i].digest) : i \in 1..Len(layers) })
             = N
        /\ OutBlobs = { BlobOf(layers[i].digest) : i \in 1..Len(layers) }
                      \cup { BlobOf(sha256_bytes(outDir[CONFIG_FILENAME])) }
        /\ Cardinality(OutBlobs) = N + 1
        /\ DOMAIN outDir = OutBlobs \cup { CONFIG_FILENAME, MANIFEST_FILENAME }

\* unpack into an empty directory of an archive packaged from two files
C10_Witness ==
  /\ lastOp = "unpack"
  /\ FreshArchive
  /\ outWasEmpty
  /\ N = 2
  /\ Cardinality(DOMAIN outDir) = 5

\* a step in which add_layer succeeded on an archive that was there
AddLayerStep ==
  /\ archive # <<>>
  /\ lastOp' = "add_layer"
  /\ addResult'.status = "ok"
  /\ added' = added + 1

\* the step appended one entry blobs/sha256/<hex of the returned digest>,
\* whose bytes have the returned digest and size, and left every entry that
\* was there as it was
AppendsOneBlob ==
  /\ Len(archive') = Len(archive) + 1
  /\ SubSeq(archive', 1, Len(archive)) = archive
  /\ LET e == archive'[Len(archive')]
     IN  /\ ~e.isdir
         /\ e.name = BlobOf(addResult'.layer.digest)
         /\ sha256_bytes(e.data) = addResult'.layer.digest
         /\ Len(e.data) = addResult'.layer.size

\* C11 as stated: a successful add_layer only appends one content-addressed
\* blob entry, verify_layers returns afterwards what it returned before, and
\* the manifest names no digest of an added layer
C11_AddLayerLeavesVerifyAlone ==
  [][AddLayerStep =>
       /\ AppendsOneBlob
       /\ verify_layers(archive') = verify_layers(archive)
       /\ (HasEntry(archive, MANIFEST_FILENAME) =>
            LET m == ParseManifest(EntryData(archive', MANIFEST_FILENAME))
            IN  m.ok =>
                  \A k \in 1..Len(m.val.layers) :
                    m.val.layers[k].digest # addResult'.layer.digest)]_vars

\* C11, amended: a successful add_layer only appends one content-addressed
\* blob entry and leaves every other entry, manifest.json and config.json
\* included, as it was; verify_layers ends the same way afterwards and
\* returns the same pair for every layer, except that a layer whose digest
\* is the returned digest (the same file added in the second in which it
\* was packaged) and whose blob was missing is reported valid
C11_AddLayerAppendsOneBlob ==
  [][AddLayerStep =>
       /\ AppendsOneBlob
       /\ LET before == verify_layers(archive)
              after  == verify_layers(archive')
              digest == addResult'.layer.digest
          IN  /\ after.status = before.status
              /\ Len(after.results) = Len(before.results)
              /\ \A k \in 1..Len(after.results) :
                   \/ after.results[k] = before.results[k]
                   \/ /\ before.results[k] = << digest, FALSE >>
                      /\ after.results[k] = << digest, TRUE >>]_vars

\* add_layer put back the blob of a layer that had been removed: the
\* archive verifies again
C11_Witness ==
  /\ lastOp = "add_layer"
  /\ addResult.status = "ok"
  /\ deleted # {}
  /\ HasEntry(archive, MANIFEST_FILENAME)
  /\ \E k \in 1..Len(ArchiveManifest.layers) :
       ArchiveManifest.layers[k].digest = addResult.layer.digest
  /\ verify_layers(archive).status = "ok"
  /\ \A k \in 1..Len(verify_layers(archive).results) :
       verify_layers(archive).results[k][2]

\* C12 as stated: unpack never writes outside the output directory, whatever
\* the names of the archive's entries
C12_NothingWrittenOutside ==
  DOMAIN outside = {}

\* C13 as stated: unpack of an archive without a config.json entry raises
\* FileNotFoundError for config.json and returns no config, whatever the
\* output directory held before
C13_MissingConfigRaises ==
  (lastOp = "unpack" /\ archive # <<>>
     /\ ~HasEntry(archive, CONFIG_FILENAME)) =>
    /\ unpackResult.status = "FileNotFoundError: config.json"
    /\ unpackResult.config = <<>>

\* C14: verify_layers on an archive without a manifest.json entry raises
\* FileNotFoundError for manifest.json and returns no result, not even a
\* partial one
C14_MissingManifestRaises ==
  (lastOp = "verify" /\ archive # <<>>
     /\ ~HasEntry(archive, MANIFEST_FILENAME)) =>
    verifyResult = [status |-> "FileNotFoundError: manifest.json",
                    results |-> <<>>]

\* verify_layers ran on an archive that holds layer blobs but no
\* manifest.json
C14_Witness ==
  /\ lastOp = "verify"
  /\ archive # <<>>
  /\ ~HasEntry(archive, MANIFEST_FILENAME)
  /\ N >= 1
  /\ Cardinality(BlobIndexes(archive)) = N + 1
  /\ verifyResult.status = "FileNotFoundError: manifest.json"

\* a step that is one call of package
PackageStep ==
  /\ lastOp' = "package"
  /\ pkgCall' # NoCall
  /\ clock' = clock

\* C15: package on a path that does not exist or is no directory raises
\* NotADirectoryError, returns no path and writes nothing: the archive at
\* the output path and every other file are as before
C15_NotADirectoryWritesNothing ==
  [][(PackageStep /\ pkgCall'.model_dir \in BadPaths)
       => /\ pkgStatus' = "NotADirectoryError"
          /\ pkgCall'.returned = <<>>
          /\ archive' = archive
          /\ srcFiles' = srcFiles
          /\ outDir' = outDir
          /\ outside' = outside]_vars

\* package has been refused on the regular file "/m/b" while an archive
\* was at the output path, and on "/n", where nothing is
C15_Witness ==
  /\ lastOp = "package"
  /\ pkgStatus = "NotADirectoryError"
  /\ pkgCall.model_dir = ModelDir \o <<47, 98>>
  /\ <<98>> \in DOMAIN srcFiles
  /\ archive # <<>>

C15_WitnessMissing ==
  /\ lastOp = "package"
  /\ pkgStatus = "NotADirectoryError"
  /\ pkgCall.model_dir = <<47, 110>>
  /\ archive # <<>>

\* C16: add_layer on a path that does not exist ("/m/b" when the model
\* directory holds no b) or is no regular file (the directory "/m") raises
\* FileNotFoundError, returns no layer and leaves the archive as it was
C16_MissingFileLeavesArchive ==
  [][(/\ lastOp' = "add_layer"
      /\ addResult' # NoAdd
      /\ \/ addResult'.path = ModelDir
         \/ /\ addResult'.path = ModelDir \o <<47, 98>>
            /\ <<98>> \notin DOMAIN srcFiles)
       => /\ addResult'.status = "FileNotFoundError"
          /\ addResult'.layer = NoLayer
          /\ archive' = archive
          /\ srcFiles' = srcFiles]_vars

\* add_layer has been refused on the directory "/m" while the archive held
\* the packaged model, and on the missing "/m/b"
C16_Witness ==
  /\ lastOp = "add_layer"
  /\ addResult.status = "FileNotFoundError"
  /\ addResult.path = ModelDir
  /\ HasEntry(archive, MANIFEST_FILENAME)

C16_WitnessMissing ==
  /\ lastOp = "add_layer"
  /\ addResult.status = "FileNotFoundError"
  /\ addResult.path = ModelDir \o <<47, 98>>
  /\ <<98>> \notin DOMAIN srcFiles
  /\ HasEntry(archive, MANIFEST_FILENAME)

\* the keys of the members of the outermost object of a JSON text written
\* with indent=2: each stands on a line of its own behind two spaces
TopLevelKeys(text) ==
  { SubSeq(text, i + 4, j - 1) :
      <<i, j>> \in { p \in (1..Len(text)) \X (1..Len(text)) :
                       /\ p[1] + 4 <= p[2] /\ p[2] < Len(text)
                       /\ SubSeq(text, p[1], p[1] + 3) = <<10, 32, 32, 34>>
                       /\ text[p[2]] = 34 /\ text[p[2] + 1] = 58
                       /\ \A k \in (p[1] + 4)..(p[2] - 1) : text[k] # 34 } }

\* C17 as stated: the manifest.json package writes has the top-level keys
\* schemaVersion, mediaType, config and layers
C17_ManifestKeysCamelCase ==
  Packaged =>
    TopLevelKeys(EntryData(archive, MANIFEST_FILENAME))
      = { <<115, 99, 104, 101, 109, 97, 86, 101, 114, 115, 105, 111, 110>>,
          K_mediaType, K_config, K_layers }

\* a path as the file system resolves it, the working directory being the
\* model directory
Resolved(path) ==
  IF path[1] = 47 THEN path ELSE ModelDir \o <<47>> \o path

\* C18 as stated: a successful package writes one file, the archive beside
\* the model directory ("/m-1.tar" for the model directory "/m", however it
\* is named), which is the path returned, and leaves every other file as it
\* was, the regular files of the model directory among them
C18_OnlyTheArchiveBesideTheModel ==
  [][(PackageStep /\ pkgStatus' = "ok")
       => /\ Resolved(pkgCall'.returned) = <<47>> \o TarName(config)
          /\ archive' # <<>>
          /\ srcFiles' = srcFiles
          /\ outDir' = outDir
          /\ outside' = outside]_vars

\* C19: whenever package or add_layer has returned or failed, on any of
\* their exit paths, no work area is left in the temporary directory
C19_WorkAreaRemoved ==
  tmpAreas = <<>>

\* package has failed while opening the output archive, its work area
\* complete, and add_layer has failed with the blob in its work area
C19_Witness ==
  /\ lastOp = "package"
  /\ pkgStatus = "OSError"
  /\ { CONFIG_FILENAME, MANIFEST_FILENAME } \subseteq DOMAIN pkgCall.tmp
  /\ Cardinality(DOMAIN pkgCall.tmp) > 3
  /\ tmpAreas = <<>>

C19_WitnessAddLayer ==
  /\ lastOp = "add_layer"
  /\ addResult.status = "OSError"
  /\ DOMAIN addResult.tmp # {}
  /\ tmpAreas = <<>>

\* C20: after package and any number of add_layer calls on the archive,
\* every entry under blobs/sha256/ is named by the sha256 hex digest of its
\* own bytes
C20_BlobsContentAddressed ==
  \A i \in BlobIndexes(archive) :
    archive[i].name = BlobEntryName(hexdigest(archive[i].data))

\* the archive of a model with two files, with two layers added to it
C20_Witness ==
  /\ HasEntry(archive, MANIFEST_FILENAME)
  /\ N = 2
  /\ added = 2
  /\ lastOp = "add_layer"
  /\ Cardinality(BlobIndexes(archive)) = 5

\* a step that is one call of create_manifest
CreateManifestStep ==
  /\ lastOp' = "create_manifest"
  /\ cmCall'.called
  /\ clock' = clock

\* C21: create_manifest returns a manifest of schema version 2 whose layers
\* are as many as the layers handed in and stand in their order, the i-th
\* with the media type, digest, size and annotations of the i-th layer, and
\* the call changes neither the config nor an archive nor any file
C21_CreateManifestIsPure ==
  [][CreateManifestStep
       => /\ cmCall'.manifest.schema_version = 2
          /\ Len(cmCall'.manifest.layers) = Len(cmCall'.layers)
          /\ \A i \in 1..Len(cmCall'.layers) :
               LET d == cmCall'.manifest.layers[i]
                   l == cmCall'.layers[i]
               IN  /\ d.mediaType = l.media_type
                   /\ d.digest = l.digest
                   /\ d.size = l.size
                   /\ d.annotations = l.annotations
          /\ config' = config
          /\ archive' = archive
          /\ srcFiles' = srcFiles
          /\ outDir' = outDir
          /\ outside' = outside
          /\ tmpAreas' = tmpAreas]_vars

\* create_manifest has been called on two different layers, the first with
\* a media type of its own, while an archive was there
C21_Witness ==
  /\ lastOp = "create_manifest"
  /\ cmCall.called
  /\ Len(cmCall.layers) = 2
  /\ cmCall.layers[1].media_type # LAYER_MEDIA_TYPE
  /\ cmCall.layers[1] # cmCall.layers[2]
  /\ archive # <<>>

\* what invocation p leaves when it runs alone, from start to end, on the
\* archive and the output directory it was given: its return value, its
\* archive and its output directory
RunAlone(p) ==
  LET before == RunArchive(config, p)
  IN  CASE runs[p].op = "package" ->
             [ret |-> output_archive(ModelDir, config),
              archive |-> package(ModelDir, config, RunFiles(p), clock,
                                  "none").entries,
              out |-> <<>>]
        [] runs[p].op = "add_layer" ->
             [ret |-> add_layer(before, ModelDir \o <<47, 98>>, RunFiles(p),
                                clock, "none").layer,
              archive |-> add_layer(before, ModelDir \o <<47, 98>>,
                                    RunFiles(p), clock, "none").archive,
              out |-> <<>>]
        [] runs[p].op = "unpack" ->
             [ret |-> ParseConfig(ConfigDumpJson(config, 2)),
              archive |-> before,
              out |-> ExtractAll(before, <<>>)]
        [] OTHER ->
             [ret |-> verify_layers(before), archive |-> before,
              out |-> <<>>]

\* C22: two invocations on different archives and directories, taken
\* through every interleaving of their steps, each end with the return
\* value, the archive and the output directory they end with when run
\* alone, and leave nothing in the temporary directory
C22_InterleavingsAsSequential ==
  /\ \A p \in Procs :
       runs[p].pc = "done" =>
         /\ runs[p].ret = RunAlone(p).ret
         /\ disk[p].archive = RunAlone(p).archive
         /\ disk[p].out = RunAlone(p).out
  /\ (\A p \in Procs : runs[p].pc = "done") => work = <<>>

\* two package invocations have ended whose work areas were in the
\* temporary directory at the same time
C22_Witness ==
  /\ \A p \in Procs : runs[p].pc = "done" /\ runs[p].op = "package"
  /\ \E p \in Procs : runs[p].beside

\* the regular files of the model directory without the one at a path
FilesWithout(files, path) ==
  [q \in DOMAIN files \ { relpath(path, ModelDir) } |-> files[q]]

\* C23 as stated: the archive a successful package writes is the archive
\* it writes when nothing is at the output path, whatever was there
C23_PackageAsOnAFreshPath ==
  [][(PackageStep /\ pkgStatus' = "ok")
       => LET path  == pkgCall'.returned
              fresh == package(pkgCall'.model_dir, config,
                               FilesWithout(srcFiles, path), clock,
                               "none").entries
          IN  IF InModelDir(path)
              THEN srcFiles'[relpath(path, ModelDir)] = TarBytes(fresh)
              ELSE archive' = fresh]_vars

\* the entry verify_layers and unpack see under a name: the last of that
\* name, or nothing
SeenEntry(arch, name) ==
  IF MemberIndex(arch, name) = 0 THEN << >>
  ELSE << arch[MemberIndex(arch, name)] >>

\* the names of the blob entries the layers of an archive's manifest refer to
Referenced(arch) ==
  IF MemberIndex(arch, MANIFEST_FILENAME) = 0 THEN {}
  ELSE LET m == ParseManifest(EntryData(arch, MANIFEST_FILENAME))
       IN  IF ~m.ok THEN {}
           ELSE { BlobEntryName(Split(m.val.layers[i].digest, 58)[2]) :
                    i \in { j \in 1..Len(m.val.layers) :
                              Len(Split(m.val.layers[j].digest, 58)) >= 2 } }

\* a step changes the archive, but neither manifest.json nor a blob entry
\* a layer of the manifest names
OnlyBystandersChange ==
  /\ archive # <<>> /\ archive' # <<>>
  /\ archive' # archive
  /\ SeenEntry(archive', MANIFEST_FILENAME) = SeenEntry(archive, MANIFEST_FILENAME)
  /\ \A n \in Referenced(archive) : SeenEntry(archive', n) = SeenEntry(archive, n)

\* C24: two archives with the same manifest.json and the same blob entries
\* for the manifest's layers get the same result from verify_layers,
\* whatever else differs: config.json, the config blob, other blobs
C24_VerifyReadsManifestAndLayersOnly ==
  [][OnlyBystandersChange
       => verify_layers(archive') = verify_layers(archive)]_vars

\* verify_layers has found every layer of a packaged model valid although
\* config.json and the config blob were rewritten since
C24_Witness ==
  /\ lastOp = "verify"
  /\ verifyResult.status = "ok"
  /\ N >= 1
  /\ Len(verifyResult.results) = N
  /\ \A i \in 1..Len(verifyResult.results) : verifyResult.results[i][2]
  /\ CONFIG_FILENAME \in tampered
  /\ BlobEntryName(hexdigest(ConfigDumpJson(config, 2))) \in tampered

\* C25: whenever verify_layers reports true for a layer of an archive, the
\* file blobs/sha256/<hex> that unpack of the same archive writes into a
\* fresh output directory hashes to that layer's digest, also when the
\* archive holds several entries for that file
C25_VerifiedLayerUnpacksIntact ==
  lastOp = "verify" =>
    \A filter \in ExtractionFilters :
      LET written == unpack(archive, <<>>, filter).out
      IN  \A i \in 1..Len(verifyResult.results) :
            verifyResult.results[i][2] =>
              LET digest    == verifyResult.results[i][1]
                  blob_name == BlobEntryName(Split(digest, 58)[2])
              IN  /\ blob_name \in DOMAIN written
                  /\ sha256_bytes(written[blob_name]) = digest

====
